---- MODULE Spec2Model ----
(***************************************************************************)
(* Issue-Estimator: the Flask backend (src/app.py) and the LLM analyzer    *)
(* (src/llm_analyzer.py) as state machines.                                *)
(*                                                                         *)
(* Texts are sequences of tokens (a token stands for a run of characters   *)
(* without '/' and without white space, or for one '/' or one blank).      *)
(* Floats are records [nan, v]: v counts tenths (hours, dollars), nan is   *)
(* IEEE not-a-number, for which every ordering comparison is false.        *)
(***************************************************************************)
EXTENDS Integers, Sequences, FiniteSets, TLC

VARIABLES
    scen,               \* the bounded scenario explored (fixed by Init)
    req,                \* per request slot: the JSON body received
    hpc,                \* per request slot: position of the analyze_issues handler
    resp,               \* per request slot: the HTTP response returned
    progress_tracking,  \* app.py:39, session id -> progress record
    analysis_cache,     \* app.py:36, cache_key -> analyzed issues
    jpc,                \* per session: position of the background thread
    jl,                 \* per session: locals of process_multiple_repos / process_single_repo
    statusLog,          \* per session: the status values written so far, in order
    cache,              \* llm_analyzer.py:28, cache key -> verdict
    cpc,                \* per caller: position inside analyze_issue
    cl,                 \* per caller: locals of analyze_issue, and what was known at its start
    last,               \* per caller: how its latest analyze_issue call ended
    returned,           \* the contents for which a call has returned
    got,                \* the verdicts obtained from the remote service and stored, by content
    ncalls,             \* analyze_issue calls made so far
    polled,             \* the latest answer of GET /api/progress/<session_id>
    host,               \* the answers of the issue host to the page requests 1, 2, ...
    fpc,                \* position of fetch_issues
    fpage,              \* fetch_issues: page
    fissues,            \* fetch_issues: issues
    fresult,            \* how fetch_issues ended: the list returned or the error raised
    env,                \* the environment of the analyzer: VERCEL and LLM_PROVIDER
    rpc,                \* position inside _analyze_with_openai
    attempt,            \* llm_analyzer.py:330, the loop variable
    wire,               \* what _analyze_with_openai has sent, received and slept, in order
    rresult,            \* how _analyze_with_openai ended
    purl,               \* parse_repo_url: the reference given
    parsed,             \* parse_repo_url: what the call gave
    pargs,              \* the progress computation: repository i of N, issue j of M
    published,          \* the progress values computed for them
    frequests,          \* fetch_issues: the params of the requests sent, in order
    llm_response,       \* _parse_llm_response: the text given
    parsed_response     \* _parse_llm_response: what the call gave

appVars == <<req, hpc, resp, progress_tracking, analysis_cache, jpc, jl, statusLog>>

llmVars == <<cache, cpc, cl, last, returned, got, ncalls>>

pollVars == <<polled>>

fetchVars == <<host, fpc, fpage, fissues, fresult, frequests>>

retryVars == <<env, rpc, attempt, wire, rresult>>

parseVars == <<purl, parsed>>

progVars == <<pargs, published>>

respVars == <<llm_response, parsed_response>>

\* what the steps of the server's handler and threads leave alone, and what the
\* steps of analyze_issue leave alone
offServer == <<llmVars, pollVars, fetchVars, retryVars, parseVars, progVars, respVars>>
offAnalyzer == <<scen, appVars, pollVars, fetchVars, retryVars, parseVars, progVars, respVars>>
offRetry == <<scen, appVars, llmVars, pollVars, fetchVars, parseVars, progVars, respVars>>

vars == <<scen, req, hpc, resp, progress_tracking, analysis_cache, jpc, jl, statusLog,
          cache, cpc, cl, last, returned, got, ncalls, polled,
          host, fpc, fpage, fissues, fresult, env, rpc, attempt, wire, rresult,
          purl, parsed, pargs, published, frequests, llm_response, parsed_response>>

----------------------------------------------------------------------------
(* Bounds *)

MaxListLen == 2     \* repo_urls lists of every content up to this length
MaxIssues == 2      \* issues a fetch returns, in the rich scenario

(* Program constants *)

MAX_REPOS == 5              \* app.py:559
DEFAULT_HOURLY_RATE == 80   \* app.py:547
PROGRESS_CAP == 99          \* app.py:237

Slots == {"s1", "s2"}

----------------------------------------------------------------------------
(* Floats *)

F(n) == [nan |-> FALSE, v |-> n]
NaN == [nan |-> TRUE, v |-> 0]

FLt(a, b) == ~a.nan /\ ~b.nan /\ a.v < b.v
FGt(a, b) == ~a.nan /\ ~b.nan /\ a.v > b.v
FLe(a, b) == ~a.nan /\ ~b.nan /\ a.v <= b.v
FAdd(a, b) == IF a.nan \/ b.nan THEN NaN ELSE F(a.v + b.v)
\* a float times a whole number (hours in tenths times a rate)
FMulInt(a, k) == IF a.nan THEN NaN ELSE F(a.v * k)

RECURSIVE FSum(_)
FSum(s) == IF s = <<>> THEN F(0) ELSE FAdd(FSum(SubSeq(s, 1, Len(s) - 1)), s[Len(s)])

RECURSIVE IntSum(_)
IntSum(s) == IF s = <<>> THEN 0 ELSE IntSum(SubSeq(s, 1, Len(s) - 1)) + s[Len(s)]

Map(f(_), s) == [i \in 1..Len(s) |-> f(s[i])]

RECURSIVE SeqsUpTo(_, _)
SeqsUpTo(n, S) ==
    IF n = 0 THEN {<<>>}
    ELSE LET shorter == SeqsUpTo(n - 1, S)
         IN shorter \cup {Append(q, x) : q \in {t \in shorter : Len(t) = n - 1}, x \in S}

Repeat(x, n) == [i \in 1..n |-> x]

----------------------------------------------------------------------------
(* Repository references: GitHubAPIClient.parse_repo_url *)

SP == " "
SL == "/"
HOST == "github.com"
DOTGIT == ".git"

RECURSIVE StripLeft(_)
StripLeft(u) == IF u # <<>> /\ u[1] = SP THEN StripLeft(Tail(u)) ELSE u

RECURSIVE StripRight(_)
StripRight(u) ==
    IF u # <<>> /\ u[Len(u)] = SP THEN StripRight(SubSeq(u, 1, Len(u) - 1)) ELSE u

\* str.strip()
Strip(u) == StripRight(StripLeft(u))

\* str.rstrip('/')
RECURSIVE RStripSlash(_)
RStripSlash(u) ==
    IF u # <<>> /\ u[Len(u)] = SL THEN RStripSlash(SubSeq(u, 1, Len(u) - 1)) ELSE u

\* the longest run of tokens other than '/' that starts at position i: [^/]+, greedy
RECURSIVE RunEnd(_, _)
RunEnd(u, i) == IF i <= Len(u) /\ u[i] # SL THEN RunEnd(u, i + 1) ELSE i

\* r'github\.com/([^/]+)/([^/]+)' matched with the host at position i
MatchHostAt(u, i) ==
    LET a == i + 2
        b == RunEnd(u, a)
        c == b + 1
        d == RunEnd(u, c)
    IN  IF /\ i + 1 <= Len(u) /\ u[i] = HOST /\ u[i + 1] = SL
           /\ b > a /\ b <= Len(u) /\ u[b] = SL /\ d > c
        THEN [ok |-> TRUE, owner |-> SubSeq(u, a, b - 1), repo |-> SubSeq(u, c, d - 1)]
        ELSE [ok |-> FALSE, owner |-> <<>>, repo |-> <<>>]

\* re.search: the leftmost position at which the first pattern matches
RECURSIVE SearchHost(_, _)
SearchHost(u, i) ==
    IF i > Len(u) THEN [ok |-> FALSE, owner |-> <<>>, repo |-> <<>>]
    ELSE IF MatchHostAt(u, i).ok THEN MatchHostAt(u, i)
    ELSE SearchHost(u, i + 1)

\* r'^([^/]+)/([^/]+)$'
MatchShorthand(u) ==
    LET b == RunEnd(u, 1)
        d == RunEnd(u, b + 1)
    IN  IF b > 1 /\ b <= Len(u) /\ u[b] = SL /\ d > b + 1 /\ d = Len(u) + 1
        THEN [ok |-> TRUE, owner |-> SubSeq(u, 1, b - 1), repo |-> SubSeq(u, b + 1, d - 1)]
        ELSE [ok |-> FALSE, owner |-> <<>>, repo |-> <<>>]

\* repo.replace('.git', '')
RemoveDotGit(name) == SelectSeq(name, LAMBDA t : t # DOTGIT)

\* mutant: every reference is taken for a repository
parse_repo_url_AcceptsAll(url) == [ok |-> TRUE, owner |-> <<"owner">>, repo |-> <<"repo">>]

\* (owner, repo), or ok = FALSE for ValueError("Invalid GitHub repository URL format")
parse_repo_url(url) ==
    LET u == RStripSlash(Strip(url))
        m == IF SearchHost(u, 1).ok THEN SearchHost(u, 1) ELSE MatchShorthand(u)
    IN  [ok |-> m.ok, owner |-> m.owner, repo |-> RemoveDotGit(m.repo)]

MaxUrlLen == 5      \* tokens of a reference

\* the references parse_repo_url is given: texts made of a scheme, the host,
\* slashes, blanks, the text .git and another piece of text
UrlTokens == {"https:", HOST, SL, SP, DOTGIT, "name"}
UrlPool == SeqsUpTo(MaxUrlLen, UrlTokens)

NotParsed == [kind |-> "none", ok |-> FALSE, owner |-> <<>>, repo |-> <<>>]

\* a call of parse_repo_url: the pair is returned, or ValueError is raised
ParseCall ==
    /\ parsed.kind = "none"
    /\ parsed' = [kind |-> IF parse_repo_url(purl).ok THEN "return" ELSE "raise",
                  ok |-> parse_repo_url(purl).ok,
                  owner |-> parse_repo_url(purl).owner,
                  repo |-> parse_repo_url(purl).repo]
    /\ UNCHANGED <<scen, appVars, llmVars, pollVars, fetchVars, retryVars, progVars, respVars, purl>>

InitParse == purl \in UrlPool /\ parsed = NotParsed

\* no parse_repo_url call is followed
NoParse == purl = <<>> /\ parsed = NotParsed

----------------------------------------------------------------------------
(* LLMAnalyzer, src/llm_analyzer.py.  A response text is a sequence of     *)
(* tokens [t, d]: prose, white space, the markdown fences (three backticks, *)
(* with or without json after them), the braces, a key that               *)
(* introduces a nested object, a JSON array, and the members of an object  *)
(* (d holds the three members the parser reads).  Raw hours count          *)
(* hundredths; a verdict's hours count tenths.                             *)

HOURS_RANGES == [Low |-> <<1, 6>>, Medium |-> <<6, 15>>, High |-> <<15, 25>>]

NoMembers == [complexity |-> "absent", hours |-> [kind |-> "absent", val |-> 0],
              reasoning |-> "absent"]

Tok(t) == [t |-> t, d |-> NoMembers]
PROSE == Tok("prose")
WS == Tok("ws")
FENCEJSON == Tok("fence_json")
FENCE == Tok("fence")
LB == Tok("{")
RB == Tok("}")
KEY == Tok("key:")
ARRAY == Tok("[..]")
QRB == Tok("\"}\"")     \* a member whose string value holds a closing brace
Members(c, h, r) == [t |-> "members", d |-> [complexity |-> c, hours |-> h, reasoning |-> r]]

H(kind, val) == [kind |-> kind, val |-> val]

IsFence(x) == x.t \in {"fence_json", "fence"}

\* str.find: the first position >= from whose token satisfies P, or 0
RECURSIVE Find(_, _, _)
Find(text, P(_), from) ==
    IF from > Len(text) THEN 0
    ELSE IF P(text[from]) THEN from
    ELSE Find(text, P, from + 1)

RECURSIVE TStripLeft(_)
TStripLeft(u) == IF u # <<>> /\ u[1] = WS THEN TStripLeft(Tail(u)) ELSE u

RECURSIVE TStripRight(_)
TStripRight(u) ==
    IF u # <<>> /\ u[Len(u)] = WS THEN TStripRight(SubSeq(u, 1, Len(u) - 1)) ELSE u

TStrip(u) == TStripRight(TStripLeft(u))

\* lines 194-201: text[json_start:json_end].strip(); a missing closing fence
\* gives json_end = -1, the slice that drops the last character
StripFences(text) ==
    LET open == IF Find(text, LAMBDA x : x = FENCEJSON, 1) # 0
                THEN Find(text, LAMBDA x : x = FENCEJSON, 1)
                ELSE Find(text, IsFence, 1)
        close == Find(text, IsFence, open + 1)
    IN  IF open = 0 THEN text
        ELSE IF close # 0 THEN TStrip(SubSeq(text, open + 1, close - 1))
        ELSE TStrip(SubSeq(text, open + 1, Len(text) - 1))

\* lines 207-216: the position after the brace that closes the one at i, or 0
RECURSIVE MatchingEnd(_, _, _)
MatchingEnd(text, i, brace_count) ==
    IF i > Len(text) THEN 0
    ELSE IF text[i] = LB THEN MatchingEnd(text, i + 1, brace_count + 1)
    ELSE IF text[i] \in {RB, QRB}
         THEN IF brace_count - 1 = 0 THEN i + 1
              ELSE MatchingEnd(text, i + 1, brace_count - 1)
    ELSE MatchingEnd(text, i + 1, brace_count)

\* lines 204-219
ExtractObject(text) ==
    LET json_start == Find(text, LAMBDA x : x = LB, 1)
        json_end == MatchingEnd(text, json_start, 0)
    IN  IF json_start # 0 /\ json_end # 0
        THEN SubSeq(text, json_start, json_end - 1)
        ELSE text

\* json.loads on an object: LB members? (key: object)? RB with white space
\* anywhere; the result is the end position, or 0 when the text is not JSON
RECURSIVE ObjectEnd(_, _)
ObjectEnd(text, i) ==
    LET sk(k) == IF k <= Len(text) /\ text[k] = WS THEN k + 1 ELSE k
        a == sk(i + 1)
        m == IF a <= Len(text) /\ text[a].t = "members" THEN sk(a + 1) ELSE a
        b == IF m <= Len(text) /\ text[m] = QRB THEN sk(m + 1) ELSE m
        c == IF b < Len(text) /\ text[b] = KEY /\ sk(b + 1) <= Len(text)
             THEN (IF ObjectEnd(text, sk(b + 1)) = 0 THEN 0
                   ELSE sk(ObjectEnd(text, sk(b + 1))))
             ELSE b
    IN  IF i > Len(text) \/ text[i] # LB \/ c = 0 THEN 0
        ELSE IF c <= Len(text) /\ text[c] = RB THEN c + 1
        ELSE 0

\* json.loads: "dict" with its members, "other" for a JSON value that is no
\* object, "error" for JSONDecodeError
JsonLoads(text) ==
    LET u == TStrip(text)
    IN  IF u = <<ARRAY>> THEN [kind |-> "other", d |-> NoMembers]
        ELSE IF u # <<>> /\ ObjectEnd(u, 1) = Len(u) + 1
             THEN [kind |-> "dict",
                   d |-> IF u[2].t = "members" THEN u[2].d
                         ELSE IF Len(u) > 2 /\ u[2] = WS /\ u[3].t = "members" THEN u[3].d
                         ELSE NoMembers]
        ELSE [kind |-> "error", d |-> NoMembers]

Infinity == F(1000000000)

\* float(data.get('estimated_hours', 8)), in hundredths: "ok", or the
\* exception raised (ValueError for a string that is no number, TypeError for
\* null); float("nan") and the JSON literal NaN give nan
FloatOfHours(h) ==
    CASE h.kind = "absent" -> [exc |-> "", f |-> F(800)]
      [] h.kind = "num" -> [exc |-> "", f |-> F(h.val)]
      [] h.kind = "nan" -> [exc |-> "", f |-> NaN]
      [] h.kind = "inf" -> [exc |-> "", f |-> Infinity]
      [] h.kind = "text" -> [exc |-> "ValueError", f |-> F(0)]
      [] OTHER -> [exc |-> "TypeError", f |-> F(0)]

\* lines 233-237, on hundredths
Clamp(estimated_hours, complexity) ==
    LET min_hours == F(HOURS_RANGES[complexity][1] * 100)
        max_hours == F(HOURS_RANGES[complexity][2] * 100)
    IN  IF FLt(estimated_hours, min_hours) THEN min_hours
        ELSE IF FGt(estimated_hours, max_hours) THEN max_hours
        ELSE estimated_hours

\* round(x, 1): hundredths to the nearest tenth (a tie goes to the even tenth)
Round1(x) ==
    IF x.nan THEN NaN
    ELSE LET q == x.v \div 10
             r == x.v % 10
         IN  F(IF r > 5 \/ (r = 5 /\ q % 2 = 1) THEN q + 1 ELSE q)

\* lines 225-227
ValidComplexity(c) == IF c \in {"Low", "Medium", "High"} THEN c ELSE "Medium"

Verdict(c, h, r) == [complexity |-> c, estimated_hours |-> h, reasoning |-> r]

ParseErrorDefault == Verdict("Medium", F(80), "Default estimate due to parsing error")

\* _parse_llm_response: [exc, v]; exc names the exception that leaves the
\* function, "" when v is returned
parse_llm_response(response_text) ==
    LET text == ExtractObject(StripFences(response_text))
        data == JsonLoads(text)
        complexity == ValidComplexity(data.d.complexity)
        hours == FloatOfHours(data.d.hours)
        reasoning == IF data.d.reasoning = "absent" THEN "No detailed reasoning provided."
                     ELSE data.d.reasoning
    IN  IF TStrip(response_text) = <<>>
        THEN [exc |-> "ValueError", v |-> ParseErrorDefault]
        ELSE IF data.kind = "error" THEN [exc |-> "", v |-> ParseErrorDefault]
        ELSE IF data.kind = "other" THEN [exc |-> "AttributeError", v |-> ParseErrorDefault]
        ELSE IF hours.exc = "ValueError" THEN [exc |-> "", v |-> ParseErrorDefault]
        ELSE IF hours.exc # "" THEN [exc |-> hours.exc, v |-> ParseErrorDefault]
        ELSE [exc |-> "",
              v |-> Verdict(complexity, Round1(Clamp(hours.f, complexity)), reasoning)]

\* what is given to _parse_llm_response: prose, then perhaps a fence, then the
\* JSON object or what stands in its place, the closing fence, then prose
ObjectPool ==
    {<<LB, Members("High", H("num", 3000), "text"), RB>>,
     <<LB, WS, Members("Low", H("num", 450), "text"), KEY, LB, RB, RB>>,
     <<LB, Members("Epic", H("absent", 0), "absent"), RB>>,
     <<LB, Members("Low", H("text", 0), "text"), RB>>,        \* "estimated_hours": "abc"
     <<LB, Members("Low", H("null", 0), "text"), RB>>,        \* "estimated_hours": null
     <<LB, Members("High", H("num", 2000), "text"), QRB, RB>>}

NoObjectPool ==
    {<<>>,
     <<ARRAY>>,                                               \* JSON, but no object
     <<PROSE>>,
     <<LB, Members("High", H("num", 2000), "text")>>}         \* an object cut short

FencePool ==
    {<< <<>>, <<>> >>,
     << <<FENCEJSON, WS>>, <<WS, FENCE>> >>,
     << <<FENCE>>, <<FENCE>> >>}

ProsePool == {<< <<>>, <<>> >>, << <<PROSE, WS>>, <<WS, PROSE>> >>}

Wrapped(pre, fence, core, post) == pre[1] \o fence[1] \o core \o fence[2] \o post[2]

ResponsePoolOf(cores) ==
    {Wrapped(pre, fence, core, post) :
        pre \in ProsePool, fence \in FencePool, core \in cores, post \in ProsePool}

ResponseTexts == ResponsePoolOf(ObjectPool \cup NoObjectPool)

NoResponseParsed == [kind |-> "none", exc |-> "", v |-> ParseErrorDefault]

\* a call of _parse_llm_response: the verdict is returned, or an exception
\* leaves the function
ParseResponse ==
    /\ parsed_response.kind = "none"
    /\ parsed_response' =
          [kind |-> IF parse_llm_response(llm_response).exc = "" THEN "return" ELSE "raise",
           exc |-> parse_llm_response(llm_response).exc,
           v |-> parse_llm_response(llm_response).v]
    /\ UNCHANGED <<scen, appVars, llmVars, pollVars, fetchVars, retryVars, parseVars,
                   progVars, llm_response>>

InitResponse == llm_response \in ResponseTexts /\ parsed_response = NoResponseParsed

\* no call of _parse_llm_response is followed
NoParseResponse == llm_response = <<>> /\ parsed_response = NoResponseParsed

LLM_HOURLY_RATE == 80    \* llm_analyzer.py:24, DEFAULT_HOURLY_RATE

\* result['estimated_cost'] = round(hours * DEFAULT_HOURLY_RATE, 2), tenths of a dollar
WithCost(v) ==
    [complexity |-> v.complexity, estimated_hours |-> v.estimated_hours,
     reasoning |-> v.reasoning,
     estimated_cost |-> FMulInt(v.estimated_hours, LLM_HOURLY_RATE)]

\* lines 305-310
ErrorDefault ==
    WithCost(Verdict("Medium", F(80), "Default estimate due to error. Manual review recommended."))

\* What _analyze_with_openai gives back: the text of the reply, or the last
\* error once every attempt has failed
Reply(text) == [kind |-> "text", text |-> text]
Failure == [kind |-> "raise", text |-> <<>>]

\* lines 291-310: the verdict analyze_issue returns for a reply, and whether
\* it is stored in the cache
AfterReply(reply) ==
    LET p == parse_llm_response(reply.text)
    IN  IF reply.kind = "raise" \/ p.exc # ""
        THEN [cached |-> FALSE, v |-> ErrorDefault]
        ELSE [cached |-> TRUE, v |-> WithCost(p.v)]

(* Issue contents.  Characters are numbers; a body is given as its first   *)
(* 1000 characters (head) and the rest (tail).                             *)

Surrogates == {0}    \* characters str.encode() refuses (lone surrogates)

Content(title, head, tail, labels) ==
    [title |-> title, body |-> [head |-> head, tail |-> tail], labels |-> labels]

\* body[:1000]
Truncate(body) == body.head

RECURSIVE LexLe(_, _)
LexLe(a, b) ==
    IF a = <<>> THEN TRUE
    ELSE IF b = <<>> THEN FALSE
    ELSE IF a[1] # b[1] THEN a[1] < b[1]
    ELSE LexLe(Tail(a), Tail(b))

RECURSIVE Insert(_, _)
Insert(x, sorted) ==
    IF sorted = <<>> THEN <<x>>
    ELSE IF LexLe(x, sorted[1]) THEN <<x>> \o sorted
    ELSE <<sorted[1]>> \o Insert(x, Tail(sorted))

\* sorted(labels)
RECURSIVE Sorted(_)
Sorted(labels) == IF labels = <<>> THEN <<>> ELSE Insert(labels[1], Sorted(Tail(labels)))

\* ''.join(...)
RECURSIVE Join(_)
Join(strs) == IF strs = <<>> THEN <<>> ELSE strs[1] \o Join(Tail(strs))

\* line 282: the text that is hashed; md5 is taken to be free of collisions,
\* so the digest is identified with the text
KeyText(c) == c.title \o Truncate(c.body) \o Join(Sorted(c.labels))

\* .encode() raises UnicodeEncodeError on a lone surrogate
Encodable(text) == \A i \in 1..Len(text) : text[i] \notin Surrogates

----------------------------------------------------------------------------
(* Requests to POST /api/analyze *)

Blank == <<SP>>
Malformed == <<"not", SP, "a", SP, "url">>
Shorthand == <<"octocat", SL, "Hello-World">>
FullUrl == <<"https:", SL, SL, HOST, SL, "octocat", SL, "Spoon-Knife", DOTGIT, SL>>

RefPool == {Blank, Malformed, Shorthand, FullUrl}

\* a number, in thousandths of a dollar
Num(n) == [kind |-> "num", val |-> n]
Invalid == [kind |-> "invalid", val |-> 0]   \* a value float() rejects
Absent == [kind |-> "absent", val |-> 0]     \* no hourly_rate field

\* repo_url = <<>> stands for a missing (or empty) legacy field
Request(urls, url, rate) == [repo_urls |-> urls, repo_url |-> url, hourly_rate |-> rate]

NoRequest == Request(<<>>, <<>>, Absent)

RequestsOne ==
    {Request(l, <<>>, r) :
        l \in SeqsUpTo(MaxListLen, RefPool)
              \cup {Repeat(Shorthand, n) : n \in MaxListLen + 1 .. MAX_REPOS + 1}
              \cup {<<Blank>> \o Repeat(Shorthand, MAX_REPOS)},
        r \in {Num(-1), Num(0), Num(2), Invalid}}
    \cup {Request(<<Shorthand>>, <<>>, Absent),
          Request(<<>>, Shorthand, Num(2)),
          Request(<<Blank>>, Shorthand, Num(2))}

RequestsMulti ==
    {Request(<<u>>, <<>>, Num(2)) : u \in {Malformed, Shorthand}}
    \cup {Request(<<Blank>>, <<>>, Num(2)), Request(<<Shorthand>>, <<>>, Num(0))}

Requests == IF scen = "one" THEN RequestsOne ELSE RequestsMulti

ActiveSlots == IF scen \in {"one", "poll"} THEN {"s1"} ELSE Slots

----------------------------------------------------------------------------
(* analyze_issues: the handler of POST /api/analyze, app.py:530-597 *)

NoResponse == [code |-> 0, session_id |-> "", repo_count |-> 0, error |-> ""]

ErrorResponse(c, e) == [code |-> c, session_id |-> "", repo_count |-> 0, error |-> e]

\* float(data.get('hourly_rate', 80)), in thousandths of a dollar
RateOf(r) ==
    IF r.hourly_rate.kind = "absent" THEN DEFAULT_HOURLY_RATE * 1000 ELSE r.hourly_rate.val

\* repo_urls after the legacy fallback (app.py:550-551)
WithLegacy(r) ==
    IF r.repo_urls = <<>> /\ r.repo_url # <<>> THEN <<r.repo_url>> ELSE r.repo_urls

\* [url.strip() for url in repo_urls if url and url.strip()]
FilterUrls(urls) == Map(Strip, SelectSeq(urls, LAMBDA u : u # <<>> /\ Strip(u) # <<>>))

\* mutant: the limit is off by one
TooManyRepos_AtLimit(urls) == Len(urls) >= MAX_REPOS

\* line 559
TooManyRepos(urls) == Len(urls) > MAX_REPOS

\* the response of a request that is not accepted, or NoResponse
Validate(r) ==
    LET urls == FilterUrls(WithLegacy(r))
    IN  IF r.hourly_rate.kind = "invalid" THEN ErrorResponse(500, "float")
        ELSE IF urls = <<>> THEN ErrorResponse(400, "At least one repository URL is required")
        ELSE IF TooManyRepos(urls) THEN ErrorResponse(400, "Maximum 5 repositories allowed")
        ELSE IF RateOf(r) <= 0 THEN ErrorResponse(400, "Hourly rate must be positive")
        ELSE NoResponse

SeedRecord(n) ==
    [status |-> "connecting", progress |-> 0, message |-> "Connecting to GitHub...",
     result |-> <<>>, repo_count |-> n, repo_results |-> <<>>,
     current_repo |-> 0, total_repos |-> 0, current_issue |-> 0,
     total_issues_in_repo |-> 0]

\* progress_tracking[sid] = rec
Put(sid, rec) ==
    [x \in DOMAIN progress_tracking \cup {sid} |->
        IF x = sid THEN rec ELSE progress_tracking[x]]

NoLocals ==
    [repo_urls |-> <<>>, hourly_rate |-> 0, total_repos |-> 0, repo_index |-> 0,
     repo_results |-> <<>>, owner |-> <<>>, repo |-> <<>>, issues |-> <<>>, idx |-> 0,
     analyzed_issues |-> <<>>, total_cost |-> F(0), result |-> <<>>,
     raised |-> <<>>,    \* ghost: which classifications of this repository raised
     failure |-> "",     \* ghost: the exception raised outside the per-issue handler
     reached |-> <<>>,   \* ghost: per repository, what the parser and the host gave
     fetched |-> <<>>]   \* ghost: per repository, how many issues fetch_issues returned (-1: none)

\* mutant: the seed record is written before the request is validated
Submit_SeedFirst(s) ==
    /\ s \in ActiveSlots
    /\ hpc[s] = "idle"
    /\ UNCHANGED offServer
    /\ \E r \in Requests :
        /\ req' = [req EXCEPT ![s] = r]
        /\ progress_tracking' = Put(s, SeedRecord(Len(FilterUrls(WithLegacy(r)))))
        /\ statusLog' = [statusLog EXCEPT ![s] = <<"connecting">>]
        /\ IF Validate(r) # NoResponse
           THEN /\ resp' = [resp EXCEPT ![s] = Validate(r)]
                /\ hpc' = [hpc EXCEPT ![s] = "done"]
           ELSE /\ hpc' = [hpc EXCEPT ![s] = "seeded"]
                /\ UNCHANGED resp
    /\ UNCHANGED <<scen, analysis_cache, jpc, jl>>

\* lines 544-578: the body is read and validated; an accepted request gets its
\* session id (the slot's name stands for the fresh uuid4) and its seed record
Submit(s) ==
    /\ s \in ActiveSlots
    /\ hpc[s] = "idle"
    /\ UNCHANGED offServer
    /\ \E r \in Requests :
        /\ req' = [req EXCEPT ![s] = r]
        /\ IF Validate(r) # NoResponse
           THEN /\ resp' = [resp EXCEPT ![s] = Validate(r)]
                /\ hpc' = [hpc EXCEPT ![s] = "done"]
                /\ UNCHANGED <<progress_tracking, statusLog>>
           ELSE /\ progress_tracking' = Put(s, SeedRecord(Len(FilterUrls(WithLegacy(r)))))
                /\ statusLog' = [statusLog EXCEPT ![s] = <<"connecting">>]
                /\ hpc' = [hpc EXCEPT ![s] = "seeded"]
                /\ UNCHANGED resp
    /\ UNCHANGED <<scen, analysis_cache, jpc, jl>>

\* lines 581-586: threading.Thread(target=process_multiple_repos, args=...).start()
StartThread(s) ==
    /\ hpc[s] = "seeded"
    /\ UNCHANGED offServer
    /\ hpc' = [hpc EXCEPT ![s] = "started"]
    /\ jpc' = [jpc EXCEPT ![s] = "begin"]
    /\ jl' = [jl EXCEPT ![s] = [NoLocals EXCEPT
                !.repo_urls = FilterUrls(WithLegacy(req[s])),
                !.hourly_rate = RateOf(req[s])]]
    /\ UNCHANGED <<scen, req, resp, progress_tracking, analysis_cache, statusLog>>

\* mutant: every id is taken to be known
get_progress_NoLookup(sid) ==
    [code |-> 200,
     body |-> IF sid \in DOMAIN progress_tracking THEN progress_tracking[sid]
              ELSE SeedRecord(0)]

\* mutant: the submission is answered 200
Respond_Status200(s) ==
    /\ hpc[s] = "started"
    /\ UNCHANGED offServer
    /\ hpc' = [hpc EXCEPT ![s] = "done"]
    /\ resp' = [resp EXCEPT ![s] =
                [code |-> 200, session_id |-> s,
                 repo_count |-> Len(FilterUrls(WithLegacy(req[s]))), error |-> ""]]
    /\ UNCHANGED <<scen, req, progress_tracking, analysis_cache, jpc, jl, statusLog>>

\* mutant: the handler joins the thread before it answers
Respond_AfterJoin(s) ==
    /\ hpc[s] = "started"
    /\ UNCHANGED offServer
    /\ jpc[s] = "done"
    /\ hpc' = [hpc EXCEPT ![s] = "done"]
    /\ resp' = [resp EXCEPT ![s] =
                [code |-> 202, session_id |-> s,
                 repo_count |-> Len(FilterUrls(WithLegacy(req[s]))), error |-> ""]]
    /\ UNCHANGED <<scen, req, progress_tracking, analysis_cache, jpc, jl, statusLog>>

\* lines 589-593: the 202 answer
Respond(s) ==
    /\ hpc[s] = "started"
    /\ UNCHANGED offServer
    /\ hpc' = [hpc EXCEPT ![s] = "done"]
    /\ resp' = [resp EXCEPT ![s] =
                [code |-> 202, session_id |-> s,
                 repo_count |-> Len(FilterUrls(WithLegacy(req[s]))), error |-> ""]]
    /\ UNCHANGED <<scen, req, progress_tracking, analysis_cache, jpc, jl, statusLog>>

\* get_progress, app.py:600-618: a read of the store
get_progress(sid) ==
    IF sid \in DOMAIN progress_tracking
    THEN [code |-> 200, body |-> progress_tracking[sid]]
    ELSE [code |-> 404,
          body |-> [SeedRecord(0) EXCEPT !.status = "not_found",
                                         !.message = "Session not found"]]

NoPoll == [sid |-> "", answer |-> [code |-> 0, body |-> SeedRecord(0)]]

\* GET /api/progress/<sid>: the handler runs get_progress and answers
Poll(sid) ==
    /\ polled' = [sid |-> sid, answer |-> get_progress(sid)]
    /\ UNCHANGED <<scen, appVars, llmVars, fetchVars, retryVars, parseVars, progVars, respVars>>

----------------------------------------------------------------------------
(* What the outside world may answer.  The variety is bounded by the size  *)
(* of the session: every outcome for one repository, fewer for two, one    *)
(* issue at most for longer lists and for concurrent sessions.             *)

Tier(n) ==
    IF scen = "one" /\ n = 1 THEN "rich"
    ELSE IF scen = "one" /\ n = 2 THEN "medium"
    ELSE IF scen = "one" THEN "long"
    ELSE "simple"

\* what fetch_issues gives: a list of raw issues, or the error it raises;
\* raw_ok tells whether the raw issues hold every key extract_issue_data reads
FetchOk(issues) == [ok |-> TRUE, error |-> "", issues |-> issues, raw_ok |-> TRUE]
FetchError(e) == [ok |-> FALSE, error |-> e, issues |-> <<>>, raw_ok |-> TRUE]
FetchBroken(issues) == [ok |-> TRUE, error |-> "", issues |-> issues, raw_ok |-> FALSE]

\* the open issues of a repository, newest first, by number
IssueList(m) == [i \in 1..m |-> m + 1 - i]

FetchPool(n) ==
    {FetchError("Repository not found or is private")}
    \cup {FetchOk(IssueList(m)) :
            m \in IF Tier(n) \in {"rich", "medium"} THEN 0..MaxIssues ELSE {1}}
    \cup (IF Tier(n) = "rich" THEN {FetchBroken(IssueList(1))} ELSE {})

LowReply == Reply(<<LB, Members("Low", H("num", 396), "text"), RB>>)
HighReply ==
    Reply(<<PROSE, FENCEJSON, WS, LB, Members("High", H("num", 3000), "text"), RB, WS, FENCE>>)
NaNReply == Reply(<<LB, Members("Low", H("nan", 0), "text"), RB>>)

Returned(v) == [raised |-> FALSE, v |-> v]
Raised == [raised |-> TRUE, v |-> ErrorDefault]

\* the outcomes of llm_analyzer.analyze_issue seen by its caller
LowVerdict == AfterReply(LowReply).v
FailureVerdict == AfterReply(Failure).v
NaNVerdict == AfterReply(NaNReply).v

IssuePool(n) ==
    {Returned(LowVerdict)}
    \cup (IF Tier(n) = "long" THEN {} ELSE {Raised})
    \cup (IF Tier(n) = "rich"
          THEN {Returned(FailureVerdict), Returned(NaNVerdict)}
          ELSE {})

----------------------------------------------------------------------------
(* process_single_repo, app.py:186-316 *)

NoResult ==
    [repo_url |-> <<>>, owner |-> <<>>, repo |-> <<>>, issues |-> <<>>,
     total_cost |-> F(0), total_hours |-> F(0), issue_count |-> 0,
     status |-> "", error |-> "", message |-> "", cache_key |-> <<>>]

\* mutant: the handler of line 304 drops the message
ErrorResult_NoMessage(repo_url, e) ==
    [NoResult EXCEPT !.repo_url = repo_url, !.status = "error"]

\* lines 306-316
ErrorResult(repo_url, e) ==
    [NoResult EXCEPT !.repo_url = repo_url, !.status = "error", !.error = e]

\* mutant: a repository without open issues is reported as a failure
EmptyResult_AsError(repo_url, owner, repo) ==
    [NoResult EXCEPT !.repo_url = repo_url, !.status = "error",
                     !.error = "No open issues found"]

\* lines 210-220
EmptyResult(repo_url, owner, repo) ==
    [NoResult EXCEPT !.repo_url = repo_url, !.owner = owner, !.repo = repo,
                     !.status = "success", !.message = "No open issues found"]

\* f"{owner}_{repo}"
CacheKey(owner, repo) == owner \o <<"_">> \o repo

\* int((repo_index - 1) / total_repos * 100)
BaseProgress(repo_index, total_repos) == ((repo_index - 1) * 100) \div total_repos

\* The arguments <<idx, len(issues), total_repos>>, among those with fewer
\* than 100 issues and at most 5 repositories, for which the product of the
\* two double quotients (idx / len(issues)) * (100 / total_repos) is below the
\* integer that the exact product is: 29/50 is the double 0.57999..., so
\* 0.58 * 100.0 gives 57.99999999999999 and 0.58 * 50.0 gives 28.999999999999996
FloatShort == {<<29, 50, 1>>, <<29, 50, 2>>}

\* int((idx / len(issues)) * (100 / total_repos)), a truncated double product
RepoProgress(idx, n_issues, total_repos) ==
    (idx * 100) \div (n_issues * total_repos)
        - (IF <<idx, n_issues, total_repos>> \in FloatShort THEN 1 ELSE 0)

Min(a, b) == IF a <= b THEN a ELSE b

\* mutant: no cap
TotalProgress_NoCap(repo_index, total_repos, idx, n_issues) ==
    BaseProgress(repo_index, total_repos) + RepoProgress(idx, n_issues, total_repos)

\* line 237
TotalProgress(repo_index, total_repos, idx, n_issues) ==
    Min(BaseProgress(repo_index, total_repos) + RepoProgress(idx, n_issues, total_repos),
        PROGRESS_CAP)

MaxProgressIssues == 50     \* issues of a repository whose progress is computed

\* repository repo_index of total_repos, issue idx of n_issues
ProgressArgs ==
    {a \in [repo_index : 1..MAX_REPOS, total_repos : 1..MAX_REPOS,
            idx : 1..MaxProgressIssues, n_issues : 1..MaxProgressIssues] :
        a.repo_index <= a.total_repos /\ a.idx <= a.n_issues}

NotPublished == [kind |-> "none", progress_percent |-> 0, total_progress |-> 0]

\* app.py:330 and 234-237: the value published when the repository starts
\* and the value published for the issue
Publish ==
    /\ published.kind = "none"
    /\ published' =
          [kind |-> "published",
           progress_percent |-> BaseProgress(pargs.repo_index, pargs.total_repos),
           total_progress |-> TotalProgress(pargs.repo_index, pargs.total_repos,
                                            pargs.idx, pargs.n_issues)]
    /\ UNCHANGED <<scen, appVars, llmVars, pollVars, fetchVars, retryVars, parseVars, respVars, pargs>>

InitProgress == pargs \in ProgressArgs /\ published = NotPublished

\* no progress computation is followed
NoProgress ==
    /\ pargs = [repo_index |-> 1, total_repos |-> 1, idx |-> 1, n_issues |-> 1]
    /\ published = NotPublished

\* Money counts ten-thousandths of a dollar: hours in tenths times a rate in
\* thousandths.  round(x, 2): to the nearest cent; a tie goes to the even
\* cent (the hours and rates explored give no tie).
Round2(x) ==
    IF x.nan THEN NaN
    ELSE LET q == x.v \div 100
             r == x.v % 100
         IN  F(100 * (IF r > 50 \/ (r = 50 /\ q % 2 = 1) THEN q + 1 ELSE q))

\* lines 255-267
AnalyzedIssue(number, analysis, hourly_rate) ==
    [issue_number |-> number, complexity |-> analysis.complexity,
     estimated_hours |-> analysis.estimated_hours,
     estimated_cost |-> Round2(FMulInt(analysis.estimated_hours, hourly_rate)),
     reasoning |-> analysis.reasoning]

\* lines 274-283
Sentinel(number) ==
    [issue_number |-> number, complexity |-> "Unknown", estimated_hours |-> F(0),
     estimated_cost |-> F(0), reasoning |-> "Analysis failed. Manual review required."]

\* lines 292-302
SuccessResult(l) ==
    [NoResult EXCEPT
        !.repo_url = l.repo_urls[l.repo_index], !.owner = l.owner, !.repo = l.repo,
        !.issues = l.analyzed_issues, !.total_cost = Round2(l.total_cost),
        \* round(total_hours, 1) of a sum of tenths
        !.total_hours = FSum(Map(LAMBDA a : a.estimated_hours, l.analyzed_issues)),
        !.issue_count = Len(l.analyzed_issues),
        !.cache_key = CacheKey(l.owner, l.repo), !.status = "success"]

\* mutant: the error result carries the issues at hand
Fail_KeepsIssues(l, kind, e, n) ==
    [l EXCEPT !.result = <<[ErrorResult(l.repo_urls[l.repo_index], e) EXCEPT
                                !.issues = l.analyzed_issues,
                                !.issue_count = Len(l.analyzed_issues)]>>,
              !.failure = e,
              !.reached = Append(l.reached, kind),
              !.fetched = Append(l.fetched, n)]

\* lines 304-316: an exception raised at lines 201-302 outside the per-issue
\* handler ends the repository with an error result
Fail(l, kind, e, n) ==
    [l EXCEPT !.result = <<ErrorResult(l.repo_urls[l.repo_index], e)>>,
              !.failure = e,
              !.reached = Append(l.reached, kind),
              !.fetched = Append(l.fetched, n)]

\* lines 201-225: the reference is parsed, the issues are fetched and cleaned
ParseAndFetch(s) ==
    /\ jpc[s] = "fetch"
    /\ UNCHANGED offServer
    /\ LET l == jl[s]
           repo_url == l.repo_urls[l.repo_index]
           p == parse_repo_url(repo_url)
       IN  IF ~p.ok
           THEN /\ jl' = [jl EXCEPT ![s] =
                            Fail(l, "malformed", "Invalid GitHub repository URL format", -1)]
                /\ jpc' = [jpc EXCEPT ![s] = "append"]
           ELSE \E f \in FetchPool(l.total_repos) :
                  IF ~f.ok
                  THEN /\ jl' = [jl EXCEPT ![s] = Fail(l, "unreachable", f.error, -1)]
                       /\ jpc' = [jpc EXCEPT ![s] = "append"]
                  ELSE IF f.issues = <<>>
                  THEN /\ jl' = [jl EXCEPT ![s] = [l EXCEPT
                                   !.result = <<EmptyResult(repo_url, p.owner, p.repo)>>,
                                   !.reached = Append(l.reached, "reachable"),
                                   !.fetched = Append(l.fetched, 0)]]
                       /\ jpc' = [jpc EXCEPT ![s] = "append"]
                  ELSE IF ~f.raw_ok
                  THEN /\ jl' = [jl EXCEPT ![s] = Fail(l, "broken", "'title'", Len(f.issues))]
                       /\ jpc' = [jpc EXCEPT ![s] = "append"]
                  ELSE /\ jl' = [jl EXCEPT ![s] = [l EXCEPT
                                   !.owner = p.owner, !.repo = p.repo,
                                   !.issues = f.issues, !.idx = 0,
                                   !.analyzed_issues = <<>>, !.total_cost = F(0),
                                   !.raised = <<>>,
                                   !.reached = Append(l.reached, "reachable"),
                                   !.fetched = Append(l.fetched, Len(f.issues))]]
                       /\ jpc' = [jpc EXCEPT ![s] = "update"]
    /\ UNCHANGED <<scen, req, hpc, resp, progress_tracking, analysis_cache, statusLog>>

\* mutant: the progress of an issue is published in the record of every session
IssueUpdate_EveryRecord(s) ==
    /\ jpc[s] = "update"
    /\ UNCHANGED offServer
    /\ LET l == jl[s]
           idx == l.idx + 1
       IN  /\ jl' = [jl EXCEPT ![s].idx = idx]
           /\ progress_tracking' = [o \in DOMAIN progress_tracking |->
                [progress_tracking[o] EXCEPT
                    !.progress = TotalProgress(l.repo_index, l.total_repos, idx, Len(l.issues)),
                    !.message = "Analyzing issue",
                    !.current_repo = l.repo_index,
                    !.current_issue = idx,
                    !.total_issues_in_repo = Len(l.issues)]]
    /\ jpc' = [jpc EXCEPT ![s] = "analyze"]
    /\ UNCHANGED <<scen, req, hpc, resp, analysis_cache, statusLog>>

\* lines 231-245: the progress of issue idx is published
IssueUpdate(s) ==
    /\ jpc[s] = "update"
    /\ UNCHANGED offServer
    /\ LET l == jl[s]
           idx == l.idx + 1
       IN  /\ jl' = [jl EXCEPT ![s].idx = idx]
           /\ progress_tracking' = [progress_tracking EXCEPT ![s] = [@ EXCEPT
                !.progress = TotalProgress(l.repo_index, l.total_repos, idx, Len(l.issues)),
                !.message = "Analyzing issue",
                !.current_repo = l.repo_index,
                !.current_issue = idx,
                !.total_issues_in_repo = Len(l.issues)]]
    /\ jpc' = [jpc EXCEPT ![s] = "analyze"]
    /\ UNCHANGED <<scen, req, hpc, resp, analysis_cache, statusLog>>

\* mutant: an issue whose classification raises is skipped
IssueAnalyze_DropFailed(s) ==
    /\ jpc[s] = "analyze"
    /\ UNCHANGED offServer
    /\ LET l == jl[s]
           number == l.issues[l.idx]
       IN  \E o \in IssuePool(l.total_repos) :
             jl' = [jl EXCEPT ![s] = [l EXCEPT
                    !.raised = Append(l.raised, o.raised),
                    !.analyzed_issues =
                        IF o.raised THEN l.analyzed_issues
                        ELSE Append(l.analyzed_issues,
                                    AnalyzedIssue(number, o.v, l.hourly_rate)),
                    !.total_cost =
                        IF o.raised THEN l.total_cost
                        ELSE FAdd(l.total_cost, FMulInt(o.v.estimated_hours, l.hourly_rate))]]
    /\ jpc' = [jpc EXCEPT ![s] = IF jl[s].idx = Len(jl[s].issues) THEN "finish" ELSE "update"]
    /\ UNCHANGED <<scen, req, hpc, resp, progress_tracking, analysis_cache, statusLog>>

\* lines 247-283: issue idx is classified and recorded
IssueAnalyze(s) ==
    /\ jpc[s] = "analyze"
    /\ UNCHANGED offServer
    /\ LET l == jl[s]
           number == l.issues[l.idx]
       IN  \E o \in IssuePool(l.total_repos) :
             LET a == IF o.raised THEN Sentinel(number)
                      ELSE AnalyzedIssue(number, o.v, l.hourly_rate)
             IN  jl' = [jl EXCEPT ![s] = [l EXCEPT
                    !.raised = Append(l.raised, o.raised),
                    !.analyzed_issues = Append(l.analyzed_issues, a),
                    !.total_cost =
                        IF o.raised THEN l.total_cost
                        ELSE FAdd(l.total_cost, FMulInt(o.v.estimated_hours, l.hourly_rate))]]
    /\ jpc' = [jpc EXCEPT ![s] = IF jl[s].idx = Len(jl[s].issues) THEN "finish" ELSE "update"]
    /\ UNCHANGED <<scen, req, hpc, resp, progress_tracking, analysis_cache, statusLog>>

\* lines 285-302: the issue list is cached for the export and the result returned
RepoFinish(s) ==
    /\ jpc[s] = "finish"
    /\ UNCHANGED offServer
    /\ LET l == jl[s]
           cache_key == CacheKey(l.owner, l.repo)
       IN  /\ analysis_cache' = [k \in DOMAIN analysis_cache \cup {cache_key} |->
                                   IF k = cache_key THEN l.analyzed_issues
                                   ELSE analysis_cache[k]]
           /\ jl' = [jl EXCEPT ![s].result = <<SuccessResult(l)>>]
    /\ jpc' = [jpc EXCEPT ![s] = "append"]
    /\ UNCHANGED <<scen, req, hpc, resp, progress_tracking, statusLog>>

----------------------------------------------------------------------------
(* process_multiple_repos, app.py:319-371: the background thread of a session *)

\* lines 324-326
JobBegin(s) ==
    /\ jpc[s] = "begin"
    /\ UNCHANGED offServer
    /\ jl' = [jl EXCEPT ![s] = [@ EXCEPT !.total_repos = Len(jl[s].repo_urls),
                                         !.repo_results = <<>>, !.repo_index = 0]]
    /\ jpc' = [jpc EXCEPT ![s] = "loop"]
    /\ UNCHANGED <<scen, req, hpc, resp, progress_tracking, analysis_cache, statusLog>>

\* mutant: the next repository is started while the result of the previous one
\* is still to be appended
RepoStart_BeforeAppend(s) ==
    /\ jpc[s] \in {"loop", "append"}
    /\ UNCHANGED offServer
    /\ jl[s].repo_index < jl[s].total_repos
    /\ LET repo_index == jl[s].repo_index + 1
       IN  /\ jl' = [jl EXCEPT ![s] = [@ EXCEPT !.repo_index = repo_index, !.failure = ""]]
           /\ progress_tracking' = [progress_tracking EXCEPT ![s] = [@ EXCEPT
                !.progress = BaseProgress(repo_index, jl[s].total_repos),
                !.message = "Analyzing repository",
                !.current_repo = repo_index,
                !.total_repos = jl[s].total_repos]]
    /\ jpc' = [jpc EXCEPT ![s] = "fetch"]
    /\ UNCHANGED <<scen, req, hpc, resp, analysis_cache, statusLog>>

\* lines 328-336: the next repository is announced
RepoStart(s) ==
    /\ jpc[s] = "loop"
    /\ UNCHANGED offServer
    /\ jl[s].repo_index < jl[s].total_repos
    /\ LET repo_index == jl[s].repo_index + 1
       IN  /\ jl' = [jl EXCEPT ![s] = [@ EXCEPT !.repo_index = repo_index, !.failure = ""]]
           /\ progress_tracking' = [progress_tracking EXCEPT ![s] = [@ EXCEPT
                !.progress = BaseProgress(repo_index, jl[s].total_repos),
                !.message = "Analyzing repository",
                !.current_repo = repo_index,
                !.total_repos = jl[s].total_repos]]
    /\ jpc' = [jpc EXCEPT ![s] = "fetch"]
    /\ UNCHANGED <<scen, req, hpc, resp, analysis_cache, statusLog>>

\* mutant: the result of a failed repository is not kept
RepoAppend_DropErrors(s) ==
    /\ jpc[s] = "append"
    /\ UNCHANGED offServer
    /\ LET repo_results == IF jl[s].result[1].status = "error" THEN jl[s].repo_results
                           ELSE Append(jl[s].repo_results, jl[s].result[1])
       IN  /\ jl' = [jl EXCEPT ![s] = [@ EXCEPT !.repo_results = repo_results,
                                                !.result = <<>>]]
           /\ progress_tracking' = [progress_tracking EXCEPT
                                        ![s].repo_results = repo_results]
    /\ jpc' = [jpc EXCEPT ![s] = "loop"]
    /\ UNCHANGED <<scen, req, hpc, resp, analysis_cache, statusLog>>

\* lines 339-343: the result is appended and the list published
RepoAppend(s) ==
    /\ jpc[s] = "append"
    /\ UNCHANGED offServer
    /\ LET repo_results == Append(jl[s].repo_results, jl[s].result[1])
       IN  /\ jl' = [jl EXCEPT ![s] = [@ EXCEPT !.repo_results = repo_results,
                                                !.result = <<>>]]
           /\ progress_tracking' = [progress_tracking EXCEPT
                                        ![s].repo_results = repo_results]
    /\ jpc' = [jpc EXCEPT ![s] = "loop"]
    /\ UNCHANGED <<scen, req, hpc, resp, analysis_cache, statusLog>>

\* lines 355-362
FinalResult(s, repo_results, hourly_rate) ==
    [repo_results |-> repo_results,
     total_cost |-> Round2(FSum(Map(LAMBDA r : r.total_cost, repo_results))),
     total_hours |-> FSum(Map(LAMBDA r : r.total_hours, repo_results)),
     total_issues |-> IntSum(Map(LAMBDA r : r.issue_count, repo_results)),
     hourly_rate |-> hourly_rate, session_id |-> s]

\* mutant: the session is marked complete without its result
Complete_WithoutResult(s) ==
    /\ jpc[s] = "loop"
    /\ UNCHANGED offServer
    /\ jl[s].repo_index = jl[s].total_repos
    /\ progress_tracking' = [progress_tracking EXCEPT ![s] = [@ EXCEPT
            !.status = "complete", !.progress = 100, !.message = "Analysis complete!"]]
    /\ statusLog' = [statusLog EXCEPT ![s] = Append(@, "complete")]
    /\ jpc' = [jpc EXCEPT ![s] = "done"]
    /\ UNCHANGED <<scen, req, hpc, resp, analysis_cache, jl>>

\* mutant: the thread ends without marking the session
Complete_Silent(s) ==
    /\ jpc[s] = "loop"
    /\ UNCHANGED offServer
    /\ jl[s].repo_index = jl[s].total_repos
    /\ jpc' = [jpc EXCEPT ![s] = "done"]
    /\ UNCHANGED <<scen, req, hpc, resp, progress_tracking, analysis_cache, jl, statusLog>>

\* lines 345-363: every repository is done
Complete(s) ==
    /\ jpc[s] = "loop"
    /\ UNCHANGED offServer
    /\ jl[s].repo_index = jl[s].total_repos
    /\ progress_tracking' = [progress_tracking EXCEPT ![s] = [@ EXCEPT
            !.status = "complete", !.progress = 100, !.message = "Analysis complete!",
            !.result = <<FinalResult(s, jl[s].repo_results, jl[s].hourly_rate)>>]]
    /\ statusLog' = [statusLog EXCEPT ![s] = Append(@, "complete")]
    /\ jpc' = [jpc EXCEPT ![s] = "done"]
    /\ UNCHANGED <<scen, req, hpc, resp, analysis_cache, jl>>

\* the texts of the exceptions the job's own statements may raise
JobExceptions == {"", "out of memory"}

\* lines 367-371: what the handler writes for the exception with text e (the
\* message is "Error: " followed by e)
ErrorUpdate(rec, e) == [rec EXCEPT !.status = "error", !.progress = 0, !.message = e]

\* mutant: the exception handler also runs after the session is complete
JobError_AfterComplete(s) ==
    /\ \/ jpc[s] \in {"begin", "loop", "append"}
       \/ jpc[s] = "done" /\ progress_tracking[s].status = "complete"
    /\ UNCHANGED offServer
    /\ \E e \in JobExceptions :
        /\ progress_tracking' = [progress_tracking EXCEPT ![s] = ErrorUpdate(@, e)]
        /\ jl' = [jl EXCEPT ![s].failure = e]
    /\ statusLog' = [statusLog EXCEPT ![s] = Append(@, "error")]
    /\ jpc' = [jpc EXCEPT ![s] = "done"]
    /\ UNCHANGED <<scen, req, hpc, resp, analysis_cache>>

\* mutant: the handler leaves the progress where it was
JobError_KeepsProgress(s) ==
    /\ jpc[s] \in {"begin", "loop", "append"}
    /\ UNCHANGED offServer
    /\ \E e \in JobExceptions :
        /\ progress_tracking' = [progress_tracking EXCEPT ![s] =
                                    [@ EXCEPT !.status = "error", !.message = e]]
        /\ jl' = [jl EXCEPT ![s].failure = e]
    /\ statusLog' = [statusLog EXCEPT ![s] = Append(@, "error")]
    /\ jpc' = [jpc EXCEPT ![s] = "done"]
    /\ UNCHANGED <<scen, req, hpc, resp, analysis_cache>>

\* lines 365-371: an exception in the thread's own statements ends the thread
JobError(s) ==
    /\ jpc[s] \in {"begin", "loop", "append"}
    /\ UNCHANGED offServer
    /\ \E e \in JobExceptions :
        /\ progress_tracking' = [progress_tracking EXCEPT ![s] = ErrorUpdate(@, e)]
        /\ jl' = [jl EXCEPT ![s].failure = e]
    /\ statusLog' = [statusLog EXCEPT ![s] = Append(@, "error")]
    /\ jpc' = [jpc EXCEPT ![s] = "done"]
    /\ UNCHANGED <<scen, req, hpc, resp, analysis_cache>>

----------------------------------------------------------------------------
(* LLMAnalyzer.analyze_issue, llm_analyzer.py:269-310.  The threads of the *)
(* sessions call it (app.py:248) on the one analyzer of the process        *)
(* (app.py:33), so calls overlap.  A call is two steps: from its start to  *)
(* the request sent to the remote service, and from the answer to the      *)
(* return.                                                                 *)

MaxCalls == 3       \* analyze_issue calls in one behaviour

Callers == {"t1", "t2"}

\* what the classification of an issue may depend on: its title, the first
\* 1000 characters of its body and the set of its labels
Ident(c) ==
    [title |-> c.title, body |-> Truncate(c.body),
     labels |-> {c.labels[i] : i \in DOMAIN c.labels}]

ContentPool ==
    {Content(<<1>>, <<2>>, <<>>, << <<3>>, <<4>> >>),
     Content(<<1>>, <<2>>, <<>>, << <<4>>, <<3>> >>),      \* the labels in another order
     Content(<<1>>, <<2>>, <<9>>, << <<3>>, <<4>> >>),     \* differs after 1000 characters
     Content(<<1, 2>>, <<>>, <<>>, << <<3>>, <<4>> >>),    \* another title and body
     Content(<<5>>, <<>>, <<>>, <<>>),
     Content(<<0>>, <<2>>, <<>>, <<>>)}                    \* a lone surrogate in the title

\* what _analyze_with_openai may give back (llm_analyzer.py:312-472)
ReplyPool ==
    {LowReply, HighReply, NaNReply,
     Reply(<<PROSE>>),      \* no JSON at all
     Reply(<<ARRAY>>),      \* JSON, but no object
     Reply(<<>>),           \* an empty answer
     Failure}               \* every attempt failed

\* lines 291-310 applied to each of them
AnswerPool == {AfterReply(reply) : reply \in ReplyPool}

NoCall ==
    [content |-> Content(<<>>, <<>>, <<>>, <<>>),
     after_return |-> FALSE, after_store |-> FALSE, prior |-> {}]

NoOutcome ==
    [kind |-> "none", v |-> ErrorDefault, remote |-> FALSE,
     after_store |-> FALSE, prior |-> {}]

\* how a call ended: "return" with the verdict v, or "raise"; remote tells
\* whether the call contacted the remote service
Outcome(kind, v, remote, started) ==
    [kind |-> kind, v |-> v, remote |-> remote,
     after_store |-> started.after_store, prior |-> started.prior]

\* mutant: the key is never found
CacheHit_Never(key) == FALSE

\* line 285: cache_key in self.cache
CacheHit(key) == key \in DOMAIN cache

\* line 299: self.cache[cache_key] = result
Store(c, key, v) == [k \in DOMAIN c \cup {key} |-> IF k = key THEN v ELSE c[k]]

\* lines 282-289: the key, the cache lookup, and on a miss the prompt that is
\* sent.  The key is computed before the try of line 291, so the error of
\* .encode() leaves analyze_issue.
AnalyzeBegin(t) ==
    /\ cpc[t] = "idle"
    /\ ncalls < MaxCalls
    /\ UNCHANGED offAnalyzer
    /\ ncalls' = ncalls + 1
    /\ \E c \in ContentPool :
        LET started ==
                [content |-> c,
                 after_return |-> Ident(c) \in returned,
                 after_store |-> \E p \in got : p.id = Ident(c),
                 prior |-> {p.v : p \in {q \in got : q.id = Ident(c)}}]
        IN  IF ~Encodable(KeyText(c))
            THEN /\ last' = [last EXCEPT ![t] = Outcome("raise", ErrorDefault, FALSE, started)]
                 /\ UNCHANGED <<cache, cpc, cl, returned, got>>
            ELSE IF CacheHit(KeyText(c))
            THEN /\ last' = [last EXCEPT
                                ![t] = Outcome("return", cache[KeyText(c)], FALSE, started)]
                 /\ returned' = returned \cup {Ident(c)}
                 /\ UNCHANGED <<cache, cpc, cl, got>>
            ELSE /\ cpc' = [cpc EXCEPT ![t] = "remote"]
                 /\ cl' = [cl EXCEPT ![t] = started]
                 /\ UNCHANGED <<cache, last, returned, got>>

\* lines 291-310: the answer of the remote service is parsed, priced, stored
\* and returned; any exception gives the default verdict, which is not stored
AnalyzeEnd(t) ==
    /\ cpc[t] = "remote"
    /\ UNCHANGED <<offAnalyzer, ncalls>>
    /\ \E r \in AnswerPool :
        LET key == KeyText(cl[t].content)
            id == Ident(cl[t].content)
        IN  /\ cache' = IF r.cached THEN Store(cache, key, r.v) ELSE cache
            /\ got' = IF r.cached THEN got \cup {[id |-> id, v |-> r.v]} ELSE got
            /\ last' = [last EXCEPT ![t] = Outcome("return", r.v, TRUE, cl[t])]
            /\ returned' = returned \cup {id}
    /\ cpc' = [cpc EXCEPT ![t] = "idle"]
    /\ cl' = [cl EXCEPT ![t] = NoCall]

InitLLM ==
    /\ cache = <<>>
    /\ cpc = [t \in Callers |-> "idle"]
    /\ cl = [t \in Callers |-> NoCall]
    /\ last = [t \in Callers |-> NoOutcome]
    /\ returned = {}
    /\ got = {}
    /\ ncalls = 0

----------------------------------------------------------------------------
(* LLMAnalyzer._analyze_with_openai, llm_analyzer.py:312-472: the attempts *)
(* of one call, the requests they send to the remote service and the waits *)
(* between them.                                                           *)

MAX_RETRIES == 3          \* llm_analyzer.py:324
VERCEL_RETRIES == 1       \* llm_analyzer.py:324

\* lines 31, 111 and 119: the model the provider selects
ModelOf(provider) == IF provider = "openrouter" THEN "openai/gpt-5-nano" ELSE "gpt-4o-mini"

\* the environments of the process: VERCEL is "1" or not, LLM_PROVIDER is
\* openrouter (the default) or something else
Envs == [is_vercel : BOOLEAN, provider : {"openrouter", "openai"}]

\* line 324
max_retries(e) == IF e.is_vercel THEN VERCEL_RETRIES ELSE MAX_RETRIES

\* lines 336-358: max_tokens, the timeout (in tenths of a second), and the
\* temperature (in tenths), which is left out for gpt-5-nano
ApiParams(e) ==
    LET model == ModelOf(e.provider)
    IN  [model |-> model,
         max_tokens |-> IF e.provider = "openrouter" THEN 4000 ELSE 300,
         timeout |-> IF e.is_vercel THEN 250 ELSE 300,
         has_temperature |-> e.provider # "openrouter",
         temperature |-> IF e.provider # "openrouter" THEN 2 ELSE 0]

NoParams ==
    [model |-> "", max_tokens |-> 0, timeout |-> 0, has_temperature |-> FALSE, temperature |-> 0]

\* What the remote service does with one request: it answers 200 with a
\* message whose content is a text ("content") or null ("null"), it answers
\* 200 with a body that has no choices[0].message.content ("malformed"), it
\* answers with another status ("status"), or the request fails or times
\* out ("error")
Answer(kind, text) == [kind |-> kind, text |-> text]
NoAnswer == Answer("", <<>>)
Answers ==
    {Answer("content", r.text) : r \in {q \in ReplyPool : q.kind = "text"}}
    \cup {Answer(k, <<>>) : k \in {"null", "malformed", "status", "error"}}

\* the entries of the wire log: a request sent by requests.post ("post") or
\* by the OpenAI client ("create"), the answer to it, a time.sleep(0.5)
Sent(ev, n, e) == [ev |-> ev, attempt |-> n, params |-> ApiParams(e), answer |-> NoAnswer]
Received(n, a) == [ev |-> "answer", attempt |-> n, params |-> NoParams, answer |-> a]
Slept(n) == [ev |-> "sleep", attempt |-> n, params |-> NoParams, answer |-> NoAnswer]

NoReply == [kind |-> "none", text |-> <<>>]

\* line 445: return content if content else ""
ContentOf(a) == IF a.kind = "content" THEN Reply(a.text) ELSE Reply(<<>>)

\* lines 330-366 and 430-431: an iteration of the loop starts and sends its
\* first request, the direct POST on Vercel, the client's request otherwise
TryRequest ==
    /\ rpc = "loop"
    /\ wire' = Append(wire, Sent(IF env.is_vercel THEN "post" ELSE "create", attempt, env))
    /\ rpc' = IF env.is_vercel THEN "direct" ELSE "client"
    /\ UNCHANGED <<offRetry, env, attempt, rresult>>

\* lines 447-472: the except clause of an attempt; the wait when this was not
\* the last attempt and the process is not on Vercel, then the next
\* iteration, or the last error once the loop is over
AttemptFailed(w) ==
    LET w2 == IF ~env.is_vercel /\ attempt < max_retries(env) - 1
              THEN Append(w, Slept(attempt)) ELSE w
    IN  /\ wire' = w2
        /\ attempt' = attempt + 1
        /\ IF attempt + 1 < max_retries(env)
           THEN /\ rpc' = "loop"
                /\ UNCHANGED rresult
           ELSE /\ rpc' = "done"
                /\ rresult' = Failure

\* lines 433-445: the content of the response is returned
AttemptReturns(w, a) ==
    /\ wire' = w
    /\ rpc' = "done"
    /\ rresult' = ContentOf(a)
    /\ UNCHANGED attempt

\* lines 368-429: the answer to the direct POST.  A status other than 200
\* raises (line 389), a body without the expected members raises at line 391
\* or 408, a failed request raises in requests.post: each is caught at line
\* 427 and answered by a request of the OpenAI client (line 429).
DirectResponse ==
    /\ rpc = "direct"
    /\ UNCHANGED <<offRetry, env>>
    /\ \E a \in Answers :
        LET w == Append(wire, Received(attempt, a))
        IN  IF a.kind \in {"content", "null"}
            THEN AttemptReturns(w, a)
            ELSE /\ wire' = Append(w, Sent("create", attempt, env))
                 /\ rpc' = "client"
                 /\ UNCHANGED <<attempt, rresult>>

\* lines 429-445 and 447: the answer to the client's request.  The client
\* raises for a failed request and for a status other than 200; a response
\* without choices[0] raises at line 436.
ClientResponse ==
    /\ rpc = "client"
    /\ UNCHANGED <<offRetry, env>>
    /\ \E a \in Answers :
        LET w == Append(wire, Received(attempt, a))
        IN  IF a.kind \in {"content", "null"}
            THEN AttemptReturns(w, a)
            ELSE AttemptFailed(w)

\* lines 322-326: the call starts
InitRetry ==
    /\ env \in Envs
    /\ rpc = "loop"
    /\ attempt = 0
    /\ wire = <<>>
    /\ rresult = NoReply

\* no _analyze_with_openai call is followed
NoRetry ==
    /\ env = [is_vercel |-> FALSE, provider |-> "openrouter"]
    /\ rpc = "done"
    /\ attempt = 0
    /\ wire = <<>>
    /\ rresult = NoReply

----------------------------------------------------------------------------
(* GitHubAPIClient.fetch_issues, app.py:83-157, against a host that        *)
(* answers the request for page k with host[k], and with an empty page     *)
(* beyond the pages it has.                                                *)

PER_PAGE == 100     \* app.py:96

MaxPages == 3       \* pages a host has
ShortLen == 37      \* items of a page that is not full

\* an item of the issue listing; pull_request: the item has that key
Item(n, pr) == [number |-> n, pull_request |-> pr]

Response(status, remaining, batch) ==
    [status |-> status, remaining |-> remaining, batch |-> batch]

\* the items of page k number on from the pages before it
Batch(k, len, IsPr(_)) == [i \in 1..len |-> Item((k - 1) * PER_PAGE + i, IsPr(i))]

\* the answers a host may give for page k; remaining is the value of the
\* header X-RateLimit-Remaining, "unknown" when the header is missing
ResponsePool(k) ==
    {Response(200, "59", Batch(k, PER_PAGE, LAMBDA i : FALSE)),
     Response(200, "59", Batch(k, PER_PAGE, LAMBDA i : i % 2 = 0)),
     Response(200, "59", Batch(k, PER_PAGE, LAMBDA i : TRUE)),
     Response(200, "59", Batch(k, ShortLen, LAMBDA i : FALSE)),
     Response(200, "59", Batch(k, ShortLen, LAMBDA i : i > 1)),
     Response(200, "59", Batch(k, 2, LAMBDA i : TRUE)),
     Response(200, "59", <<>>),
     Response(404, "59", <<>>),
     Response(403, "0", <<>>),
     Response(403, "unknown", <<>>),
     Response(500, "59", <<>>)}

\* the answers with a full page
FullPool(k) == {r \in ResponsePool(k) : Len(r.batch) = PER_PAGE}

RECURSIVE FullHostsOfLen(_)
FullHostsOfLen(n) ==
    IF n = 0 THEN {<<>>}
    ELSE {Append(h, r) : h \in FullHostsOfLen(n - 1), r \in FullPool(n)}

\* the hosts with n pages: the pages before the last are full (the items of
\* a host stand on consecutive full pages), the last page is any answer
HostsOfLen(n) == {Append(h, r) : h \in FullHostsOfLen(n - 1), r \in ResponsePool(n)}

Hosts == UNION {HostsOfLen(n) : n \in 1..MaxPages}

\* requests.get(url, headers, params) for a page
Get(page) == IF page <= Len(host) THEN host[page] ELSE Response(200, "59", <<>>)

\* [issue for issue in batch if 'pull_request' not in issue]
IssuesOnly(batch) == SelectSeq(batch, LAMBDA item : ~item.pull_request)

NoFetchResult == [kind |-> "none", issues |-> <<>>, error |-> "", code |-> 0, fetched |-> 0]

FetchReturn(issues) == [NoFetchResult EXCEPT !.kind = "return", !.issues = issues]

\* ValueError(...): the text, and the numbers put into it
FetchRaise(error, code, fetched) ==
    [NoFetchResult EXCEPT !.kind = "raise", !.error = error, !.code = code,
                          !.fetched = fetched]

\* mutant: the message does not count the issues of the earlier pages
FetchFailure_NoCount(response, issues) ==
    IF response.status = 404 THEN FetchRaise("Repository not found or is private", 0, 0)
    ELSE IF response.status = 403
    THEN IF response.remaining = "0"
         THEN FetchRaise("GitHub API rate limit exceeded (0 requests remaining). Please add a GITHUB_TOKEN",
                         0, 0)
         ELSE FetchRaise("API rate limit exceeded. Please provide a GitHub token.", 0, 0)
    ELSE FetchRaise("GitHub API error", response.status, 0)

\* lines 116-131
FetchFailure(response, issues) ==
    IF response.status = 404 THEN FetchRaise("Repository not found or is private", 0, 0)
    ELSE IF response.status = 403
    THEN IF response.remaining = "0"
         THEN FetchRaise("GitHub API rate limit exceeded (0 requests remaining). Please add a GITHUB_TOKEN",
                         0, Len(issues))
         ELSE FetchRaise("API rate limit exceeded. Please provide a GitHub token.", 0, 0)
    ELSE FetchRaise("GitHub API error", response.status, 0)

\* mutant: the loop goes on after a page that is not full
FetchPage_PastShortPage ==
    /\ fpc = "request"
    /\ frequests' = Append(frequests, [state |-> "open", per_page |-> PER_PAGE, page |-> fpage])
    /\ LET response == Get(fpage)
           batch == response.batch
           issues_only == IssuesOnly(batch)
       IN  IF response.status # 200
           THEN /\ fresult' = FetchFailure(response, fissues)
                /\ fpc' = "done"
                /\ UNCHANGED <<fpage, fissues>>
           ELSE IF issues_only = <<>>
           THEN /\ fresult' = FetchReturn(fissues)
                /\ fpc' = "done"
                /\ UNCHANGED <<fpage, fissues>>
           ELSE /\ fissues' = fissues \o issues_only
                /\ fpage' = fpage + 1
                /\ UNCHANGED <<fpc, fresult>>
    /\ UNCHANGED <<scen, appVars, llmVars, pollVars, retryVars, parseVars, progVars, respVars, host>>

\* lines 100-154: one turn of the loop, the request for a page and what is
\* done with the answer
FetchPage ==
    /\ fpc = "request"
    /\ frequests' = Append(frequests, [state |-> "open", per_page |-> PER_PAGE, page |-> fpage])
    /\ LET response == Get(fpage)
           batch == response.batch
           issues_only == IssuesOnly(batch)
       IN  IF response.status # 200
           THEN /\ fresult' = FetchFailure(response, fissues)
                /\ fpc' = "done"
                /\ UNCHANGED <<fpage, fissues>>
           ELSE IF issues_only = <<>>
           THEN /\ fresult' = FetchReturn(fissues)
                /\ fpc' = "done"
                /\ UNCHANGED <<fpage, fissues>>
           ELSE IF Len(batch) < PER_PAGE
           THEN /\ fissues' = fissues \o issues_only
                /\ fresult' = FetchReturn(fissues \o issues_only)
                /\ fpc' = "done"
                /\ UNCHANGED fpage
           ELSE /\ fissues' = fissues \o issues_only
                /\ fpage' = fpage + 1
                /\ UNCHANGED <<fpc, fresult>>
    /\ UNCHANGED <<scen, appVars, llmVars, pollVars, retryVars, parseVars, progVars, respVars, host>>

InitFetch ==
    /\ fpc = "request"
    /\ fpage = 1
    /\ fissues = <<>>
    /\ fresult = NoFetchResult
    /\ frequests = <<>>

----------------------------------------------------------------------------
(* The server: one request and its session (Spec), or two concurrent       *)
(* sessions of one repository each (SpecMulti)                             *)

InitApp ==
    /\ req = [s \in Slots |-> NoRequest]
    /\ hpc = [s \in Slots |-> "idle"]
    /\ resp = [s \in Slots |-> NoResponse]
    /\ progress_tracking = <<>>
    /\ analysis_cache = <<>>
    /\ jpc = [s \in Slots |-> "idle"]
    /\ jl = [s \in Slots |-> NoLocals]
    /\ statusLog = [s \in Slots |-> <<>>]

\* the server, the analyzer and the poller at rest
InitQuiet == InitApp /\ InitLLM /\ polled = NoPoll

InitIdle == InitQuiet /\ NoRetry /\ NoParse /\ NoProgress /\ NoParseResponse

\* no fetch_issues call is followed
InitRest ==
    /\ InitIdle
    /\ host = <<>>
    /\ fpc = "done"
    /\ fpage = 1
    /\ fissues = <<>>
    /\ fresult = NoFetchResult
    /\ frequests = <<>>

Init == scen = "one" /\ InitRest

InitMulti == scen = "multi" /\ InitRest

InitClassify == scen = "classify" /\ InitRest

InitPoll == scen = "poll" /\ InitRest

Next ==
    \E s \in Slots :
        \/ Submit(s)
        \/ StartThread(s)
        \/ Respond(s)
        \/ JobBegin(s)
        \/ RepoStart(s)
        \/ ParseAndFetch(s)
        \/ IssueUpdate(s)
        \/ IssueAnalyze(s)
        \/ RepoFinish(s)
        \/ RepoAppend(s)
        \/ Complete(s)
        \/ JobError(s)

Spec == Init /\ [][Next]_vars

SpecMulti == InitMulti /\ [][Next]_vars

\* the threads are scheduled fairly: each step of the handler after the seed
\* record and of the session's thread is taken once it can be; every page
\* fetch and every classification request returns or fails (ParseAndFetch and
\* IssueAnalyze are steps); the exception of JobError is no step the thread
\* has to take
Fairness ==
    \A s \in Slots :
        /\ WF_vars(StartThread(s))
        /\ WF_vars(JobBegin(s))
        /\ WF_vars(RepoStart(s))
        /\ WF_vars(ParseAndFetch(s))
        /\ WF_vars(IssueUpdate(s))
        /\ WF_vars(IssueAnalyze(s))
        /\ WF_vars(RepoFinish(s))
        /\ WF_vars(RepoAppend(s))
        /\ WF_vars(Complete(s))

SpecFair == InitMulti /\ [][Next]_vars /\ Fairness

\* one session and a client that polls any id at any time
NextPoll ==
    \/ \E s \in Slots :
        \/ Submit(s)
        \/ StartThread(s)
        \/ Respond(s)
        \/ JobBegin(s)
        \/ RepoStart(s)
        \/ ParseAndFetch(s)
        \/ IssueUpdate(s)
        \/ IssueAnalyze(s)
        \/ RepoFinish(s)
        \/ RepoAppend(s)
        \/ Complete(s)
        \/ JobError(s)
    \/ \E sid \in Slots : Poll(sid)

SpecPoll == InitPoll /\ [][NextPoll]_vars

InitFetchIssues == scen = "fetch" /\ InitIdle /\ host \in Hosts /\ InitFetch

\* one fetch_issues call against each host
NextFetch == FetchPage

SpecFetch == InitFetchIssues /\ [][NextFetch]_vars

\* one call of parse_repo_url
InitParseUrl ==
    /\ scen = "parse"
    /\ InitQuiet /\ NoRetry /\ NoProgress
    /\ host = <<>> /\ fpc = "done" /\ fpage = 1 /\ fissues = <<>> /\ fresult = NoFetchResult
    /\ frequests = <<>> /\ NoParseResponse
    /\ InitParse

NextParse == ParseCall

SpecParse == InitParseUrl /\ [][NextParse]_vars

\* one computation of the published progress
InitPublish ==
    /\ scen = "progress"
    /\ InitQuiet /\ NoRetry /\ NoParse
    /\ host = <<>> /\ fpc = "done" /\ fpage = 1 /\ fissues = <<>> /\ fresult = NoFetchResult
    /\ frequests = <<>> /\ NoParseResponse
    /\ InitProgress

NextProgress == Publish

SpecProgress == InitPublish /\ [][NextProgress]_vars

\* one call of _parse_llm_response
InitParseResponse ==
    /\ scen = "response"
    /\ InitQuiet /\ NoRetry /\ NoParse /\ NoProgress
    /\ host = <<>> /\ fpc = "done" /\ fpage = 1 /\ fissues = <<>> /\ fresult = NoFetchResult
    /\ frequests = <<>>
    /\ InitResponse

NextResponse == ParseResponse

SpecResponse == InitParseResponse /\ [][NextResponse]_vars

\* one call of _analyze_with_openai
InitAttempts ==
    /\ scen = "retry"
    /\ InitQuiet /\ NoParse /\ NoProgress
    /\ host = <<>> /\ fpc = "done" /\ fpage = 1 /\ fissues = <<>> /\ fresult = NoFetchResult
    /\ frequests = <<>> /\ NoParseResponse
    /\ InitRetry

NextRetry == TryRequest \/ DirectResponse \/ ClientResponse

SpecRetry == InitAttempts /\ [][NextRetry]_vars

NextClassify ==
    \E t \in Callers :
        \/ AnalyzeBegin(t)
        \/ AnalyzeEnd(t)

SpecClassify == InitClassify /\ [][NextClassify]_vars

----------------------------------------------------------------------------
(* Properties of a session *)

Sessions == DOMAIN progress_tracking

\* the references of a request that are not blank, after the legacy fallback
Requested(r) ==
    SelectSeq(WithLegacy(r), LAMBDA u : \E k \in 1..Len(u) : u[k] # SP)

\* C1: whenever a session's status is complete, its result holds exactly one
\* RepositoryResult per requested repository, in request order; a repository
\* that ended in error is among them and the repositories after it are done too.
C1_OneResultPerRepository ==
    \A s \in Sessions :
        progress_tracking[s].status = "complete" =>
            LET rr == progress_tracking[s].result[1].repo_results
                urls == Requested(req[s])
            IN  /\ Len(progress_tracking[s].result) = 1
                /\ Len(rr) = Len(urls)
                /\ \A i \in 1..Len(urls) :
                      /\ rr[i].repo_url = Strip(urls[i])
                      /\ rr[i].status \in {"success", "error"}

C1_Witness ==
    \E s \in Sessions :
        /\ progress_tracking[s].status = "complete"
        /\ Len(progress_tracking[s].result[1].repo_results) = 2
        /\ progress_tracking[s].result[1].repo_results[1].status = "error"
        /\ progress_tracking[s].result[1].repo_results[2].status = "success"
        /\ progress_tracking[s].result[1].repo_results[2].issue_count > 0

\* C2: unless the session takes the error path of its job, the progress a poll
\* reads never decreases from one poll to a later one, and a poll reads 100
\* only together with status complete (1 to 5 repositories).
C2_ProgressMonotone ==
    [][\A s \in Sessions :
          get_progress(s)'.body.status # "error" =>
              /\ get_progress(s)'.body.progress >= get_progress(s).body.progress
              /\ get_progress(s)'.body.progress = 100 =>
                    get_progress(s)'.body.status = "complete"]_vars

C2_Witness ==
    \E s \in Sessions :
        /\ progress_tracking[s].total_repos = MAX_REPOS
        /\ progress_tracking[s].current_repo = MAX_REPOS
        /\ progress_tracking[s].progress = PROGRESS_CAP
        /\ progress_tracking[s].status = "connecting"

\* C3: when the fetch of a repository gave M >= 1 issues, the result holds
\* exactly M analyzed issues, one per fetched issue in fetch order; an issue
\* whose classification raised is the sentinel (Unknown, 0 hours, 0 cost) and
\* every other issue carries the verdict's tier.
C3_OneAnalyzedIssuePerIssue ==
    \A s \in Slots :
        (jpc[s] = "append" /\ jl[s].result[1].status = "success"
                           /\ jl[s].result[1].message = "") =>
            LET res == jl[s].result[1]
                M == Len(jl[s].issues)
            IN  /\ M >= 1
                /\ Len(res.issues) = M
                /\ res.issue_count = M
                /\ \A i \in 1..M :
                      /\ res.issues[i].issue_number = jl[s].issues[i]
                      /\ jl[s].raised[i] =>
                            /\ res.issues[i].complexity = "Unknown"
                            /\ res.issues[i].estimated_hours = F(0)
                            /\ res.issues[i].estimated_cost = F(0)
                      /\ ~jl[s].raised[i] =>
                            res.issues[i].complexity \in {"Low", "Medium", "High"}

C3_Witness ==
    \E s \in Slots :
        /\ jpc[s] = "append"
        /\ jl[s].result[1].status = "success"
        /\ Len(jl[s].result[1].issues) = 2
        /\ jl[s].raised = <<TRUE, FALSE>>
        /\ jl[s].result[1].issues[2].complexity = "Low"

\* C4: analyze_issue returns a verdict for every input and every behaviour of
\* the remote service and never raises to its caller: no call ends by raising.
C4_NeverRaises ==
    \A t \in Callers : last[t].kind # "raise"

\* C5: every verdict analyze_issue returns, parsed, defaulted or served from
\* the cache, has a complexity among Low, Medium, High and hours inside the
\* closed interval of that complexity.
C5_VerdictInRange ==
    \A t \in Callers :
        last[t].kind = "return" =>
            /\ last[t].v.complexity \in DOMAIN HOURS_RANGES
            /\ FLe(F(HOURS_RANGES[last[t].v.complexity][1] * 10), last[t].v.estimated_hours)
            /\ FLe(last[t].v.estimated_hours, F(HOURS_RANGES[last[t].v.complexity][2] * 10))

\* C6 as stated: once a call for a content has returned, whatever its outcome,
\* no later call for that content contacts the remote service.
C6_NoSecondRemoteCall ==
    \A t \in Callers : cpc[t] = "remote" => ~cl[t].after_return

\* C6: once a call for a content has returned a verdict it stored in the
\* cache, no later call for that content contacts the remote service.
C6_NoRemoteCallAfterStore ==
    /\ \A t \in Callers : cpc[t] = "remote" => ~cl[t].after_store
    /\ \A t \in Callers : last[t].after_store => ~last[t].remote

C6_Witness ==
    \E t \in Callers :
        /\ last[t].kind = "return"
        /\ last[t].after_store
        /\ ~last[t].remote
        /\ ncalls >= 2

\* C7: a call made after a call for the same title, truncated body and label
\* set has obtained a verdict from the remote service makes no remote call and
\* returns that same verdict.
C7_SecondCallIdentical ==
    \A t \in Callers :
        last[t].kind = "return" /\ last[t].prior # {} =>
            /\ ~last[t].remote
            /\ last[t].prior = {last[t].v}

C10_StatusPath ==
    \A s \in Sessions :
        /\ statusLog[s][1] = "connecting"
        /\ progress_tracking[s].status = "complete" =>
              \E i, j \in 1..Len(statusLog[s]) :
                  /\ i < j
                  /\ statusLog[s][i] = "fetching"
                  /\ statusLog[s][j] = "analyzing"
                  /\ statusLog[s][Len(statusLog[s])] = "complete"

StatusOrder == <<"connecting", "fetching", "analyzing", "complete">>

StatusRank(st) == CHOOSE i \in 1..Len(StatusOrder) : StatusOrder[i] = st

\* C11: a session's status is always one of connecting, fetching, analyzing,
\* complete, error; a step moves it forward in that order or to error; and once
\* it is complete or error no step changes the session's record.
C11_StatusForward ==
    [][/\ \A s \in DOMAIN progress_tracking' :
            progress_tracking'[s].status \in {StatusOrder[i] : i \in 1..Len(StatusOrder)}
                                              \cup {"error"}
       /\ \A s \in Sessions :
            LET old == progress_tracking[s]
                new == progress_tracking'[s]
            IN  /\ old.status \in {"complete", "error"} => new = old
                /\ new.status # old.status =>
                      \/ new.status = "error"
                      \/ StatusRank(new.status) > StatusRank(old.status)]_vars

\* a session has ended in error while the other one is still being analyzed
C11_Witness ==
    /\ "s1" \in Sessions
    /\ progress_tracking["s1"].status = "error"
    /\ jpc["s2"] = "analyze"

\* C12: a poll of a known session id is answered 200 with the session's
\* current record, a poll of an unknown id is answered 404 with status
\* not_found and progress 0, and no poll changes the progress store.
C12_PollAnswers ==
    [][polled' # polled =>
        /\ progress_tracking' = progress_tracking
        /\ IF polled'.sid \in Sessions
           THEN /\ polled'.answer.code = 200
                /\ polled'.answer.body = progress_tracking[polled'.sid]
           ELSE /\ polled'.answer.code = 404
                /\ polled'.answer.body.status = "not_found"
                /\ polled'.answer.body.progress = 0]_vars

\* an unknown id was polled while a session was being analyzed
C12_Witness ==
    /\ polled.sid = "s2"
    /\ polled.answer.code = 404
    /\ "s1" \in Sessions
    /\ progress_tracking["s1"].progress > 0
    /\ progress_tracking["s1"].status = "connecting"

\* C13: process_single_repo hands a RepositoryResult to the session job for
\* every reference and every failure of parsing, fetching, cleaning or
\* classification: while it runs no exception reaches the job, and a failure
\* outside the per-issue handler gives status error with the message of the
\* exception in the record; otherwise the status is success.
C13_AlwaysAResult ==
    [][\A s \in Slots :
        LET inside == {"fetch", "update", "analyze", "finish"}
            l == jl'[s]
        IN  /\ jpc[s] \in inside => jpc'[s] \in inside \cup {"append"}
            /\ (jpc[s] \in inside /\ jpc'[s] = "append") =>
                  /\ Len(l.result) = 1
                  /\ l.result[1].repo_url = l.repo_urls[l.repo_index]
                  /\ IF l.failure # ""
                     THEN /\ l.result[1].status = "error"
                          /\ l.result[1].error = l.failure
                          /\ l.result[1].issues = <<>>
                     ELSE l.result[1].status = "success"]_vars

\* the raw issues of a repository could not be cleaned
C13_Witness ==
    \E s \in Slots :
        /\ jpc[s] = "append"
        /\ jl[s].failure = "'title'"
        /\ jl[s].result[1].status = "error"

\* C14: in a session whose references are malformed ones ("not a url") and
\* valid ones that the host serves, the job ends in complete unless its own
\* control flow raised, and in the result exactly the malformed references have
\* status error, with empty owner and name; the others have status success.
C14_FailureIsolation ==
    \A s \in Sessions :
        LET l == jl[s]
            rec == progress_tracking[s]
            mixed == \A i \in 1..Len(l.reached) : l.reached[i] \in {"malformed", "reachable"}
        IN  /\ \A i \in 1..Len(l.reached) :
                  l.reached[i] = "malformed" <=> l.repo_urls[i] = Malformed
            /\ (jpc[s] = "done" /\ rec.status # "error") => rec.status = "complete"
            /\ (rec.status = "complete" /\ mixed) =>
                  \A i \in 1..Len(l.repo_urls) :
                      LET r == rec.result[1].repo_results[i]
                      IN  IF l.repo_urls[i] = Malformed
                          THEN r.status = "error" /\ r.owner = <<>> /\ r.repo = <<>>
                          ELSE r.status = "success" /\ r.owner # <<>> /\ r.repo # <<>>

\* a malformed reference came first and the repository after it was analyzed
C14_Witness ==
    \E s \in Sessions :
        /\ progress_tracking[s].status = "complete"
        /\ jl[s].repo_urls = <<Malformed, Shorthand>>
        /\ jl[s].reached = <<"malformed", "reachable">>
        /\ progress_tracking[s].result[1].repo_results[2].issue_count = MaxIssues

\* the issues of the pages 1..n of the host, in host order
RECURSIVE IssuesUpTo(_)
IssuesUpTo(n) == IF n = 0 THEN <<>> ELSE IssuesUpTo(n - 1) \o IssuesOnly(Get(n).batch)

\* the host's pages have raw sizes 100, ..., 100, r with r < 100, page n being
\* the short one
SizesFullThenShort(n) ==
    /\ \A k \in 1..n : Get(k).status = 200
    /\ \A k \in 1..(n - 1) : Len(Get(k).batch) = PER_PAGE
    /\ Len(Get(n).batch) < PER_PAGE

\* C15: whenever the raw page answered holds exactly 100 items, fetch_issues
\* requests the next page, whatever remains of the page once pull requests are
\* filtered out, also when nothing remains.
C15_RawSizeDecides ==
    [][(fpc = "request" /\ Get(fpage).status = 200 /\ Len(Get(fpage).batch) = PER_PAGE) =>
            (fpc' = "request" /\ fpage' = fpage + 1)]_vars

\* C16: for a host whose pages have raw sizes 100, ..., 100, r with r < 100,
\* fetch_issues returns, in host order, every item of those pages that is not
\* a pull request, stops after the short page, and returns no pull request.
C16_AllIssuesOfAllPages ==
    \A n \in 1..(MaxPages + 1) :
        (fpc = "done" /\ SizesFullThenShort(n)) =>
            /\ fresult.kind = "return"
            /\ fresult.issues = IssuesUpTo(n)
            /\ fpage = n
            /\ \A i \in 1..Len(fresult.issues) : ~fresult.issues[i].pull_request

\* C17: a page answered with a status other than 200 aborts fetch_issues with
\* the error of that status: 404 not found or private, 403 rate limited, any
\* other status the upstream error with the status code; for 403 with no
\* request remaining the message asks for a token and tells how many issues
\* the earlier pages gave.
C17_ErrorMapping ==
    [][(fpc = "request" /\ Get(fpage).status # 200) =>
          LET r == Get(fpage)
              e == fresult'
          IN  /\ fpc' = "done"
              /\ e.kind = "raise"
              /\ r.status = 404 => e.error = "Repository not found or is private"
              /\ (r.status = 403 /\ r.remaining = "0") =>
                    /\ e.error = "GitHub API rate limit exceeded (0 requests remaining). Please add a GITHUB_TOKEN"
                    /\ e.fetched = Len(IssuesUpTo(fpage - 1))
              /\ (r.status = 403 /\ r.remaining # "0") =>
                    e.error = "API rate limit exceeded. Please provide a GitHub token."
              /\ r.status \notin {404, 403} =>
                    (e.error = "GitHub API error" /\ e.code = r.status)]_vars

\* the third page was refused for the rate limit after two pages of issues
C17_Witness ==
    /\ fresult.kind = "raise"
    /\ fpage = 3
    /\ Get(3).status = 403
    /\ fresult.fetched = PER_PAGE + PER_PAGE \div 2

\* == on floats: nan equals nothing, itself included
FEq(a, b) == ~a.nan /\ ~b.nan /\ a.v = b.v

\* abs(a - b) <= tol
FNear(a, b, tol) == ~a.nan /\ ~b.nan /\ a.v - b.v <= tol /\ b.v - a.v <= tol

\* the result of a completed session, as a poll gives it
ResultOf(s) == get_progress(s).body.result[1]

\* C18: in a completed session's result total_issues is the sum of issue_count
\* over the RepositoryResults, each issue_count is the length of the issue
\* list, and total_cost and total_hours equal the sums of the per-repository
\* totals.
C18_TotalsAreSums ==
    \A s \in Sessions :
        progress_tracking[s].status = "complete" =>
            LET rs == ResultOf(s).repo_results
            IN  /\ ResultOf(s).total_issues = IntSum(Map(LAMBDA r : r.issue_count, rs))
                /\ \A i \in 1..Len(rs) : rs[i].issue_count = Len(rs[i].issues)
                /\ FEq(ResultOf(s).total_cost, FSum(Map(LAMBDA r : r.total_cost, rs)))
                /\ FEq(ResultOf(s).total_hours, FSum(Map(LAMBDA r : r.total_hours, rs)))

\* C19: every AnalyzedIssue's estimated cost is its estimated hours times the
\* session's hourly rate, to the cent, and a completed session's total_cost is
\* its total_hours times the hourly rate within the rounding of the
\* per-repository totals (half a cent each), failure sentinels and failed
\* repositories included.
C19_CostIsHoursTimesRate ==
    \A s \in Sessions :
        progress_tracking[s].status = "complete" =>
            LET rs == ResultOf(s).repo_results
                rate == RateOf(req[s])
            IN  /\ \A i \in 1..Len(rs) : \A k \in 1..Len(rs[i].issues) :
                      FEq(rs[i].issues[k].estimated_cost,
                          Round2(FMulInt(rs[i].issues[k].estimated_hours, rate)))
                /\ FNear(ResultOf(s).total_cost,
                         FMulInt(ResultOf(s).total_hours, rate),
                         50 * Len(rs))

\* C20: an exception raised by the job's own statements, outside
\* process_single_repo, sets the session's status to error, its progress to 0
\* and its message to the text of the exception; the job takes no further
\* step, and the handler and the jobs of the other sessions go on.
C20_JobError ==
    [][\A s \in Sessions :
        /\ (jpc[s] \in {"begin", "loop", "append"} /\ jpc'[s] = "done"
                /\ progress_tracking'[s].status # "complete") =>
              /\ progress_tracking'[s].status = "error"
              /\ progress_tracking'[s].progress = 0
              /\ progress_tracking'[s].message = jl'[s].failure
              /\ progress_tracking'[s].repo_results = progress_tracking[s].repo_results
        /\ progress_tracking[s].status = "error" =>
              /\ jpc'[s] = "done"
              /\ jl'[s] = jl[s]
              /\ \A o \in Slots \ {s} :
                    /\ hpc[o] = "idle" => ENABLED Submit(o)
                    /\ hpc[o] = "started" => ENABLED Respond(o)
                    /\ jpc[o] = "begin" => ENABLED JobBegin(o)]_vars

\* a session ended in error after its first repository, and then the other
\* session, submitted later, was completed
C20_Witness ==
    /\ Sessions = Slots
    /\ progress_tracking["s1"].status = "error"
    /\ progress_tracking["s1"].progress = 0
    /\ Len(progress_tracking["s1"].repo_results) = 1
    /\ progress_tracking["s2"].status = "complete"
    /\ statusLog["s1"] = <<"connecting", "error">>

\* the requests of the wire log, and the positions of its entries
IsRequest(x) == x.ev \in {"post", "create"}
IsSuccess(x) == x.ev = "answer" /\ x.answer.kind \in {"content", "null"}
NumRequests == Cardinality({i \in DOMAIN wire : IsRequest(wire[i])})

\* no request follows a successful answer
NothingAfterSuccess ==
    \A i, j \in DOMAIN wire : (i < j /\ IsSuccess(wire[i])) => ~IsRequest(wire[j])

\* a wait follows a failed answer, is never the wait of the last attempt and
\* is followed by the next attempt's request before the call ends
WaitsOnlyBetween ==
    \A i \in DOMAIN wire :
        wire[i].ev = "sleep" =>
            /\ i > 1 /\ wire[i - 1].ev = "answer" /\ ~IsSuccess(wire[i - 1])
            /\ wire[i].attempt + 1 < max_retries(env)
            /\ i < Len(wire) => IsRequest(wire[i + 1])
            /\ rpc = "done" => i < Len(wire)

\* C21: one call of _analyze_with_openai sends at most 1 request to the
\* remote service when VERCEL is 1 and at most 3 otherwise; no request follows
\* a successful answer; a wait of the backoff happens only between two
\* attempts, never after the last.
C21_RequestBound ==
    /\ NumRequests <= (IF env.is_vercel THEN VERCEL_RETRIES ELSE MAX_RETRIES)
    /\ NothingAfterSuccess
    /\ WaitsOnlyBetween

\* the handler or the thread of slot o takes the step
Moved(o) == hpc'[o] # hpc[o] \/ jpc'[o] # jpc[o] \/ jl'[o] # jl[o]

\* the step writes the record of session s
Written(s) ==
    /\ s \in DOMAIN progress_tracking'
    /\ s \in DOMAIN progress_tracking => progress_tracking'[s] # progress_tracking[s]

\* C22: under every interleaving of two sessions, a session's record is
\* written once by the submission handler, when it seeds it, and afterwards
\* only by steps of that session's own background job; no step of the other
\* session's handler or job changes it.
C22_OnlyOwnWriter ==
    [][\A s \in Slots :
        Written(s) =>
            /\ \A o \in Slots \ {s} : ~Moved(o)
            /\ IF s \notin Sessions
               THEN /\ hpc[s] = "idle" /\ hpc'[s] = "seeded"
                    /\ jpc[s] = "idle" /\ jpc'[s] = "idle"
               ELSE /\ jpc[s] \notin {"idle", "done"}
                    /\ hpc'[s] = hpc[s]]_vars

\* both jobs are running: the record of the first shows the issue its job is
\* at, the record of the second is still as the handler seeded it
C22_Witness ==
    /\ Sessions = Slots
    /\ jpc["s1"] = "analyze" /\ jpc["s2"] = "begin"
    /\ progress_tracking["s1"].current_issue = 1
    /\ progress_tracking["s1"].message = "Analyzing issue"
    /\ progress_tracking["s2"] = SeedRecord(1)

\* C23: once the cache of the analyzer holds a verdict for a key, no step of
\* any analyze_issue call, of whichever session, removes the key or changes
\* the verdict stored under it.
C23_EntriesNeverChange ==
    [][\A k \in DOMAIN cache : k \in DOMAIN cache' /\ cache'[k] = cache[k]]_vars

\* C24: in every state of a session's record the result is present exactly
\* when the status is complete; then the progress is 100 and the result holds
\* the per-repository results with the total cost, hours and issue count over
\* them, and the hourly rate of the submission.
C24_ResultIffComplete ==
    \A s \in Sessions :
        LET rec == progress_tracking[s]
        IN  /\ rec.result # <<>> <=> rec.status = "complete"
            /\ rec.status = "complete" =>
                  /\ rec.progress = 100
                  /\ Len(rec.result) = 1
                  /\ rec.result[1].repo_results = rec.repo_results
                  /\ rec.result[1].total_issues =
                        IntSum(Map(LAMBDA r : r.issue_count, rec.repo_results))
                  /\ rec.result[1].total_cost =
                        Round2(FSum(Map(LAMBDA r : r.total_cost, rec.repo_results)))
                  /\ rec.result[1].total_hours =
                        FSum(Map(LAMBDA r : r.total_hours, rec.repo_results))
                  /\ rec.result[1].hourly_rate = RateOf(req[s])

\* a session of two repositories is complete and its result counts the issues
\* of both
C24_Witness ==
    /\ scen = "one"
    /\ "s1" \in Sessions
    /\ progress_tracking["s1"].status = "complete"
    /\ Len(progress_tracking["s1"].result[1].repo_results) = 2
    /\ progress_tracking["s1"].result[1].total_issues = MaxIssues
    /\ progress_tracking["s1"].result[1].hourly_rate = RateOf(req["s1"])

\* the RepositoryResult of a repository without open issues
IsEmptySuccess(r) ==
    /\ r.status = "success"
    /\ r.issues = <<>>
    /\ r.total_cost = F(0) /\ r.total_hours = F(0) /\ r.issue_count = 0
    /\ r.message # "" /\ r.error = ""

\* C25: when fetch_issues gives no open issue, process_single_repo returns at
\* once (no classification is made) a RepositoryResult with status success, no
\* issues, zero totals and a message; the job appends it and goes on with the
\* next repository as after any other result.
C25_NoIssuesIsSuccess ==
    [][\A s \in Slots :
        LET l == jl[s]
            n == jl'[s]
        IN  /\ (Len(n.fetched) > Len(l.fetched) /\ n.fetched[Len(n.fetched)] = 0) =>
                  /\ jpc[s] = "fetch" /\ jpc'[s] = "append"
                  /\ IsEmptySuccess(n.result[1])
                  /\ n.result[1].repo_url = l.repo_urls[l.repo_index]
                  /\ n.analyzed_issues = l.analyzed_issues /\ n.raised = l.raised
            /\ (jpc[s] = "append" /\ l.fetched[Len(l.fetched)] = 0 /\ jpc'[s] # "append") =>
                  \/ jpc'[s] = "done" /\ progress_tracking'[s].status = "error"
                  \/ /\ jpc'[s] = "loop"
                     /\ n.repo_results = Append(l.repo_results, l.result[1])
                     /\ progress_tracking'[s].repo_results = n.repo_results
            /\ \A k \in 1..Len(n.repo_results) :
                  n.fetched[k] = 0 => IsEmptySuccess(n.repo_results[k])]_vars

\* a session of two repositories is complete: the first had no open issue,
\* the second had issues, which were analyzed
C25_Witness ==
    /\ "s1" \in Sessions
    /\ progress_tracking["s1"].status = "complete"
    /\ jl["s1"].fetched = <<0, MaxIssues>>
    /\ progress_tracking["s1"].repo_results[1].message = "No open issues found"
    /\ progress_tracking["s1"].repo_results[2].issue_count = MaxIssues

\* C26: when process_single_repo returns a RepositoryResult with status
\* success for owner/repo, analysis_cache holds under the key owner_repo the
\* issue list of that result.
C26_CacheHoldsResult ==
    [][\A s \in Slots :
        (jpc[s] # "append" /\ jpc'[s] = "append" /\ jl'[s].result[1].status = "success") =>
            LET r == jl'[s].result[1]
                key == CacheKey(r.owner, r.repo)
            IN  /\ key \in DOMAIN analysis_cache'
                /\ analysis_cache'[key] = r.issues]_vars

\* a name without its .git suffix
DropGitSuffix(name) ==
    IF name # <<>> /\ name[Len(name)] = DOTGIT THEN SubSeq(name, 1, Len(name) - 1) ELSE name

\* the owner and the name a reference names: those after github.com/ when the
\* reference holds github.com/owner/name, else those of the shorthand
Named(url) ==
    LET u == RStripSlash(Strip(url))
    IN  IF SearchHost(u, 1).ok THEN SearchHost(u, 1) ELSE MatchShorthand(u)

\* C27: parse_repo_url returns (owner, name) for a reference that holds
\* github.com/owner/name or is the shorthand owner/name, the owner unchanged
\* and the name unchanged but for a trailing .git suffix (trailing slashes of
\* the reference are dropped); it raises for every other reference.
C27_ParseRepoUrl ==
    parsed.kind # "none" =>
        /\ parsed.kind = (IF Named(purl).ok THEN "return" ELSE "raise")
        /\ Named(purl).ok =>
              /\ parsed.owner = Named(purl).owner
              /\ parsed.repo = DropGitSuffix(Named(purl).repo)

\* the submission of slot s was valid and has been answered
AnsweredValid(s) == hpc[s] = "done" /\ Validate(req[s]) = NoResponse

Floor(a, b) == a \div b

\* C29: the progress published when repository i of N starts is
\* floor((i-1)/N * 100), and the progress published for issue j of M of that
\* repository is min(floor((i-1)/N * 100) + floor((j/M) * (100/N)), 99), for
\* 1 <= i <= N <= 5 and 1 <= j <= M.
C29_ProgressFormula ==
    published.kind = "published" =>
        LET i == pargs.repo_index
            N == pargs.total_repos
            j == pargs.idx
            M == pargs.n_issues
        IN  /\ published.progress_percent = Floor((i - 1) * 100, N)
            /\ published.total_progress =
                  Min(Floor((i - 1) * 100, N) + Floor(j * 100, M * N), 99)

\* C30: within a session the external calls are made one after the other:
\* the job is at one place at a time, the fetch for a repository is made only
\* when the results of all the repositories before it have been appended to
\* repo_results, and the classification of an issue is made only when the
\* AnalyzedIssues of all the issues before it have been recorded.
C30_OneCallAtATime ==
    [][\A s \in Slots :
        LET l == jl[s]
            n == jl'[s]
        IN  /\ Len(n.reached) > Len(l.reached) =>
                  /\ jpc[s] = "fetch"
                  /\ Len(n.reached) = Len(l.reached) + 1
                  /\ Len(l.reached) = l.repo_index - 1
                  /\ Len(l.repo_results) = l.repo_index - 1
                  /\ Len(progress_tracking[s].repo_results) = l.repo_index - 1
                  /\ n.raised = l.raised \/ n.raised = <<>>
            /\ (n.raised # l.raised /\ n.raised # <<>>) =>
                  /\ jpc[s] = "analyze"
                  /\ n.reached = l.reached
                  /\ Len(n.raised) = Len(l.raised) + 1
                  /\ Len(l.raised) = l.idx - 1
                  /\ Len(l.analyzed_issues) = l.idx - 1
                  /\ Len(n.analyzed_issues) = l.idx]_vars

\* the second repository of a session was fetched after the first one's
\* result was appended, and its second issue was classified after the first
C30_Witness ==
    /\ jpc["s1"] = "finish"
    /\ jl["s1"].repo_index = 2
    /\ Len(jl["s1"].reached) = 2
    /\ Len(jl["s1"].repo_results) = 1
    /\ Len(jl["s1"].raised) = 2
    /\ Len(jl["s1"].analyzed_issues) = 2

\* C31: the progress update that reports issue j of a repository (current_issue
\* = j) is published when the classification of issue j has finished: at the
\* step that publishes it, j issues of the repository have been classified.
C31_UpdateAfterClassification ==
    [][\A s \in Slots :
        (s \in Sessions /\ jpc[s] = "update" /\ jpc'[s] = "analyze") =>
            LET j == progress_tracking'[s].current_issue
            IN  /\ j = jl'[s].idx
                /\ Len(jl'[s].analyzed_issues) >= j]_vars

\* the answer ends the pagination: it is not a 200, its raw size is below the
\* page size, or nothing is left of it once the pull requests are filtered out
EndsPagination(r) ==
    \/ r.status # 200
    \/ Len(r.batch) < PER_PAGE
    \/ IssuesOnly(r.batch) = <<>>

\* C32: fetch_issues requests the pages 1, 2, 3, ... in this order, each with
\* page size 100 and each at most once; it stops at the first page whose raw
\* size is below 100 or whose list is empty after filtering, and requests no
\* page after that one.
C32_PagesInOrder ==
    /\ \A k \in 1..Len(frequests) :
          /\ frequests[k].page = k
          /\ frequests[k].per_page = 100
          /\ frequests[k].state = "open"
          /\ k < Len(frequests) => ~EndsPagination(Get(k))
    /\ fpc = "done" <=> (frequests # <<>> /\ EndsPagination(Get(Len(frequests))))
    /\ fpc = "request" => fpage = Len(frequests) + 1

\* three pages were requested: the first two were full and held issues, the
\* third held only pull requests
C32_Witness ==
    /\ fpc = "done"
    /\ Len(frequests) = 3
    /\ Get(3).status = 200
    /\ Get(3).batch # <<>>
    /\ IssuesOnly(Get(3).batch) = <<>>
    /\ fresult.kind = "return"
    /\ Len(fresult.issues) > PER_PAGE

\* what a verdict decides: its complexity and its hours
Decided(v) == [complexity |-> v.complexity, estimated_hours |-> v.estimated_hours]

DefaultDecided == [complexity |-> "Medium", estimated_hours |-> F(80)]

\* the verdict the members of a JSON object give: the complexity made valid,
\* the hours clamped to its range; hours that are no number give the default
VerdictOfObject(o) ==
    LET d == JsonLoads(o).d
        complexity == ValidComplexity(d.complexity)
        hours == FloatOfHours(d.hours)
    IN  IF JsonLoads(o).kind # "dict" \/ hours.exc # "" THEN DefaultDecided
        ELSE [complexity |-> complexity,
              estimated_hours |-> Round1(Clamp(hours.f, complexity))]

\* C33: for a response made of prose and optional markdown fences around one
\* JSON object, _parse_llm_response returns the verdict derived from that
\* object; when the response holds no JSON object that parses, it returns the
\* default verdict (Medium, 8.0 hours).
C33_VerdictOfWrappedObject ==
    parsed_response.kind # "none" =>
        /\ \A o \in ObjectPool :
              llm_response \in ResponsePoolOf({o}) =>
                  /\ parsed_response.kind = "return"
                  /\ Decided(parsed_response.v) = VerdictOfObject(o)
        /\ llm_response \in ResponsePoolOf(NoObjectPool) =>
              /\ parsed_response.kind = "return"
              /\ Decided(parsed_response.v) = DefaultDecided


Accepted(s) == s \in DOMAIN progress_tracking

Ended(s) == Accepted(s) /\ progress_tracking[s].status \in {"complete", "error"}

\* C34: every accepted session eventually reaches the status complete or
\* error, when its thread is scheduled fairly and every page fetch and every
\* classification request returns or fails.
C34_SessionEnds == \A s \in Slots : Accepted(s) ~> Ended(s)

\* two sessions ran side by side and both have ended: one is complete with an
\* issue classified, the other one's thread ended with an exception
C34_Witness ==
    /\ Ended("s1") /\ Ended("s2")
    /\ jpc["s1"] = "done" /\ jpc["s2"] = "done"
    /\ progress_tracking["s1"].status = "complete"
    /\ jl["s1"].repo_results[1].issue_count = 1
    /\ progress_tracking["s2"].status = "error"


\* the handler of slot s answers 400: the submission has no references, more
\* than 5, or an hourly rate <= 0
Rejects(s) == hpc[s] = "idle" /\ hpc'[s] = "done" /\ resp'[s].code = 400

\* C35: a submission rejected by validation creates no session record and
\* starts no thread: the progress store, the result cache and the
\* classification cache are unchanged, and no thread ever runs for it.
C35_RejectionChangesNothing ==
    [][\A s \in Slots :
        /\ Rejects(s) =>
              /\ progress_tracking' = progress_tracking
              /\ analysis_cache' = analysis_cache
              /\ cache' = cache
              /\ jpc' = jpc /\ jl' = jl
        /\ (hpc[s] = "done" /\ resp[s].code = 400) =>
              /\ s \notin DOMAIN progress_tracking'
              /\ jpc'[s] = "idle"]_vars

\* a submission was rejected while the stores held the record and the issues of
\* another session
C35_Witness ==
    /\ hpc["s2"] = "done" /\ resp["s2"].code = 400
    /\ "s2" \notin DOMAIN progress_tracking
    /\ jpc["s2"] = "idle"
    /\ "s1" \in DOMAIN progress_tracking
    /\ progress_tracking["s1"].current_issue = 1
    /\ jpc["s1"] \in {"analyze", "finish"}


\* C36: a cache hit returns only a verdict that was computed for the same
\* content: two issues that differ in title, in the first 1000 characters of
\* the body or in the label set never have the same cache key, so the verdict
\* a hit returns is one that a call for this very content stored.
C36_HitForSameContent ==
    \A t \in Callers :
        (last[t].kind = "return" /\ ~last[t].remote) => last[t].v \in last[t].prior


\* the thread of s leaves fetch_issues by the error it raised: the exception
\* carries no list, whatever the earlier pages gave
FetchFails(s) ==
    /\ jpc[s] = "fetch" /\ jpc'[s] = "append"
    /\ jl'[s].reached[Len(jl'[s].reached)] = "unreachable"

====
